---- MODULE Spec2Model ----
(***************************************************************************)
(* Light control: the command processor (service/control.py), the timer    *)
(* manager (service/timers.py) and the program scheduler                  *)
(* (service/programs.py).                                                  *)
(*                                                                         *)
(* Wall-clock instants are seconds since a Monday 00:00; the timer process *)
(* counts its own clock in minutes.  The key-value store                   *)
(* is a function from keys <<group, attribute>> (group 0 holds the global  *)
(* keys) to strings; a key outside its domain is an absent key.            *)
(***************************************************************************)
EXTENDS Integers, Sequences, FiniteSets, TLC

VARIABLES
    redis,          \* the store: group attributes, defaults, group configuration
    programs,       \* the stored program definitions (lightcontrol-program-*)
    ncmd,           \* control messages handled before the observed ones
    hist,           \* the observed control messages, each with its effects
    now,            \* the wall clock of the timer process
    timers,         \* LightTimers.timers: group -> timer object
    timers_length,  \* LightTimers.timers_length: group -> recorded expiry
    thr,            \* the threading.Timer objects created so far
    pc,             \* position of LightTimers.run / start_timer
    chan,           \* messages published on lightcontrol-control-pubsub by timers.py
    req,            \* the last start_timer call, with what it saw and did
    nreq,           \* number of timer-start messages consumed
    clock,          \* the instant the scheduler's next poll cycle reads
    triggered,      \* the one-shot keys (lightprogram-*-triggered), each with its expiry
    timestamps,     \* next_start_at / next_end_at of the four programs
    cycles,         \* the scheduler's poll cycles so far, each with its effects
    cpc,            \* position of LightControlService.run
    malformed       \* the malformed payloads received so far, each with its outcome

ctlvars == <<redis, programs, ncmd, hist>>
tmrvars == <<now, timers, timers_length, thr, pc, chan, req, nreq>>
prgvars == <<clock, triggered, timestamps, cycles>>
errvars == <<cpc, malformed>>
vars == <<redis, programs, ncmd, hist,
          now, timers, timers_length, thr, pc, chan, req, nreq,
          clock, triggered, timestamps, cycles,
          cpc, malformed>>

----------------------------------------------------------------------------
(* Bounds of the model *)

NumGroups == 2      \* groups 1..NumGroups (the code: range(1, 5))
MaxCmds == 2        \* control messages handled before the observed ones
MaxReq == 2         \* timer-start messages consumed in one behaviour
MaxTime == 3        \* the timer process's clock runs 0..MaxTime (minutes)
MaxCycles == 5      \* poll cycles of the scheduler in one behaviour
MaxMalformed == 1   \* malformed payloads received in one behaviour

Groups == 1..NumGroups

None == "None"      \* Python's None where a string is expected

----------------------------------------------------------------------------
(* Conversions *)

Digit == <<"0", "1", "2", "3", "4", "5", "6", "7", "8", "9">>

RECURSIVE StrInt(_)
\* str(n) of a non-negative integer, as redis.set / str() produce it
StrInt(n) == IF n < 10 THEN Digit[n + 1]
             ELSE StrInt(n \div 10) \o Digit[(n % 10) + 1]

\* str(True) / str(False)
StrBool(b) == IF b THEN "True" ELSE "False"

\* int(s) of a stored decimal string
IntStr(s) == CHOOSE n \in 0..100 : StrInt(n) = s

----------------------------------------------------------------------------
(* service/programs.py: programs and their windows *)

DayLen == 86400     \* seconds in a day

\* datetime.strptime(start_at, "%H:%M").time(), in seconds after midnight
ParseTime(start_at) == start_at[1] * 3600 + start_at[2] * 60

\* datetime.timedelta(seconds=s)
Seconds(s) == s

DefaultPrograms ==
    [p \in {"morning-weekday", "morning-weekend", "evening-weekday", "evening-weekend"} |->
        CASE p = "morning-weekday" -> [start_at |-> <<8, 15>>, duration |-> 3600, brightness |-> <<100>>]
          [] p = "morning-weekend" -> [start_at |-> <<9, 30>>, duration |-> 3600, brightness |-> <<100>>]
          [] p = "evening-weekday" -> [start_at |-> <<22, 30>>, duration |-> 1800, brightness |-> <<>>]
          [] p = "evening-weekend" -> [start_at |-> <<23, 0>>, duration |-> 1800, brightness |-> <<>>]]

\* LightProgram(period, tod, data)
LightProgram(period, tod, data) ==
    [start_at |-> data.start_at, duration |-> data.duration,
     brightness |-> data.brightness, period |-> period, tod |-> tod]

RECURSIVE CalcLoop(_, _, _)
CalcLoop(p, current_day, dest_days) ==
    IF p > 6 THEN -1
    ELSE IF current_day \in dest_days THEN p
    ELSE CalcLoop(p + 1, (current_day + 1) % 7, dest_days)

calc_days_to(current_day, dest_days) == CalcLoop(0, current_day, dest_days)

Weekday(t) == (t \div DayLen) % 7

\* the weekday sets with the evening programs on the days of the morning ones
ValidDays_Symmetric(tod, period) ==
    IF period = "weekend" THEN {5, 6} ELSE {0, 1, 2, 3, 4}

ValidDays(tod, period) ==
    IF tod = "morning"
    THEN (IF period = "weekend" THEN {5, 6} ELSE {0, 1, 2, 3, 4})
    ELSE (IF period = "weekend" THEN {4, 5} ELSE {0, 1, 2, 3, 6})

get_start_end(prog, t, advance) ==
    LET date == (t \div DayLen) * DayLen
        weekday == Weekday(t)
        start_at_datetime == date + ParseTime(prog.start_at)
        end_at_datetime == start_at_datetime + Seconds(prog.duration)
        not_today == t > end_at_datetime
        wd == IF not_today THEN (weekday + 1) % 7 ELSE weekday
        plus_days == calc_days_to(wd, ValidDays(prog.tod, prog.period))
                       + (IF not_today THEN 1 ELSE 0)
    IN  IF advance
        THEN <<start_at_datetime + plus_days * DayLen, end_at_datetime + plus_days * DayLen>>
        ELSE <<start_at_datetime, end_at_datetime>>

start_datetime(prog, t, advance) == get_start_end(prog, t, advance)[1]

end_datetime(prog, t, advance) == get_start_end(prog, t, advance)[2]

\* get_day_programs without the Sunday rule
get_day_programs_NoSunday(progs, weekday) ==
    LET evening_program == IF weekday \in {4, 5} THEN "weekend" ELSE "weekday"
        morning_program == IF weekday = 5 THEN "weekend" ELSE "weekday"
    IN  <<LightProgram(morning_program, "morning", progs["morning-" \o morning_program]),
          LightProgram(evening_program, "evening", progs["evening-" \o evening_program])>>

get_day_programs(progs, weekday) ==
    LET evening1 == IF weekday = 4 THEN "weekend" ELSE "weekday"
        morning2 == IF weekday = 5 THEN "weekend" ELSE "weekday"
        evening2 == IF weekday = 5 THEN "weekend" ELSE evening1
        morning_program == IF weekday = 6 THEN "weekend" ELSE morning2
        evening_program == evening2
    IN  <<LightProgram(morning_program, "morning", progs["morning-" \o morning_program]),
          LightProgram(evening_program, "evening", progs["evening-" \o evening_program])>>

\* is_day taking the advanced start of the morning program
is_day_Advanced(progs, t) ==
    LET day_programs == get_day_programs(progs, Weekday(t))
        morning_start == start_datetime(day_programs[1], t, TRUE)
        evening_end == end_datetime(day_programs[2], t, FALSE)
    IN  ~(t > evening_end \/ t < morning_start)

is_day(progs, t) ==
    LET day_programs == get_day_programs(progs, Weekday(t))
        morning_start == start_datetime(day_programs[1], t, FALSE)
        evening_end == end_datetime(day_programs[2], t, FALSE)
    IN  ~(t > evening_end \/ t < morning_start)

is_night(progs, t) == ~is_day(progs, t)

----------------------------------------------------------------------------
(* service/control.py: the store *)

Key(group_id, key_name) == <<group_id, key_name>>

\* redis.get(key)
Get(r, key) == IF key \in DOMAIN r THEN r[key] ELSE None

\* redis.set(key, val)
Put(r, key, val) == [k \in DOMAIN r \cup {key} |-> IF k = key THEN val ELSE r[k]]

get_redis(r, key, default_value) ==
    LET val == Get(r, key)
    IN  IF val = None THEN default_value ELSE val

\* the default False is itself one of the two "off" values
is_group_on(r, group_id) ==
    get_redis(r, Key(group_id, "on"), StrBool(FALSE)) \notin {"False"}

\* is_group_auto reading an absent key as manual
is_group_auto_DefaultManual(r, group_id) ==
    get_redis(r, Key(group_id, "auto"), StrBool(FALSE)) \in {"True"}

\* the default True is itself one of the two "auto" values
is_group_auto(r, group_id) ==
    get_redis(r, Key(group_id, "auto"), StrBool(TRUE)) \in {"True"}

disabled_at_night(r, group_id) ==
    get_redis(r, Key(group_id, "disabled-night"), StrBool(FALSE)) \notin {"False", "false"}

get_lightgroup(r, group_id) ==
    LET color == Get(r, Key(group_id, "color"))
        brightness_key == IF color # "white" THEN "rgb" ELSE "white"
        brightness == Get(r, Key(group_id, brightness_key \o "_brightness"))
    IN  [on |-> Get(r, Key(group_id, "on")) \in {"true", "True"},
         name |-> Get(r, Key(group_id, "name")),
         color |-> color,
         current_brightness |-> brightness,
         id |-> group_id]

----------------------------------------------------------------------------
(* service/control.py: operations.  s = [redis, led, bcast] is threaded      *)
(* through the statements of one handler.                                    *)

\* run_operation comparing the stored string with the unconverted argument
run_operation_Unconverted(s, group_id, led_command, led_command_arg, key_name, force) ==
    LET stored == Put(s.redis, Key(group_id, key_name), led_command_arg)
    IN  [redis |-> stored,
         led |-> Append(s.led, [op |-> led_command, group |-> group_id,
                                arg |-> led_command_arg]),
         bcast |-> Append(s.bcast, get_lightgroup(stored, group_id))]

run_operation(s, group_id, led_command, led_command_arg, key_name, force) ==
    LET redis_key == Key(group_id, key_name)
        value == Get(s.redis, redis_key)
        stored == Put(s.redis, redis_key, led_command_arg)
    IN  IF value # None /\ value = led_command_arg /\ ~force
        THEN s
        ELSE [redis |-> stored,
              led |-> Append(s.led, [op |-> led_command, group |-> group_id,
                                     arg |-> led_command_arg]),
              bcast |-> Append(s.bcast, get_lightgroup(stored, group_id))]

set_color(s, color, group_id, force) ==
    run_operation(s, group_id, "set_color", color, "color", force)

\* the hysteresis with both thresholds taken inclusive
Clamp_Inclusive(brightness) ==
    LET low == IF brightness <= 5 THEN 0 ELSE brightness
    IN  IF low >= 95 THEN 100 ELSE low

\* the hysteresis of set_brightness
Clamp(brightness) ==
    LET low == IF brightness < 5 THEN 0 ELSE brightness
    IN  IF low > 95 THEN 100 ELSE low

\* the slot set_brightness writes
BrightnessKey(r, group_id) ==
    LET stored == Get(r, Key(group_id, "color"))
        color == IF stored = None THEN "white" ELSE stored
    IN  IF color = "white" THEN "white_brightness" ELSE "rgb_brightness"

set_brightness(s, brightness, group_id, force) ==
    run_operation(s, group_id, "set_brightness", StrInt(Clamp(brightness)),
                  BrightnessKey(s.redis, group_id), force)

set_on(s, group_id, force) ==
    run_operation(s, group_id, "on", StrBool(TRUE), "on", force)

\* set_off writing the key "off"
set_off_OffKey(s, group_id, force) ==
    run_operation(s, group_id, "off", StrBool(FALSE), "off", force)

set_off(s, group_id, force) ==
    run_operation(s, group_id, "off", StrBool(FALSE), "on", force)

set_auto_mode(s, group_id, mode) ==
    [s EXCEPT !.redis = Put(@, Key(group_id, "auto"), StrBool(mode))]

\* sync leaving the force flag out
sync_Unforced(s, group_id) ==
    IF is_group_on(s.redis, group_id)
    THEN LET s1 == set_on(s, group_id, FALSE)
             color == get_redis(s1.redis, Key(group_id, "color"), "white")
             s2 == set_color(s1, color, group_id, FALSE)
             brightness_key == IF color = "white" THEN "white_brightness"
                               ELSE "rgb_brightness"
             stored == Get(s2.redis, Key(group_id, brightness_key))
             brightness == IF stored = None THEN 100 ELSE IntStr(stored)
         IN  set_brightness(s2, brightness, group_id, FALSE)
    ELSE set_off(s, group_id, FALSE)

sync(s, group_id) ==
    IF is_group_on(s.redis, group_id)
    THEN LET s1 == set_on(s, group_id, TRUE)
             color == get_redis(s1.redis, Key(group_id, "color"), "white")
             s2 == set_color(s1, color, group_id, TRUE)
             brightness_key == IF color = "white" THEN "white_brightness"
                               ELSE "rgb_brightness"
             stored == Get(s2.redis, Key(group_id, brightness_key))
             brightness == IF stored = None THEN 100 ELSE IntStr(stored)
         IN  set_brightness(s2, brightness, group_id, TRUE)
    ELSE set_off(s, group_id, TRUE)

\* program_sync without the user-override check
program_sync_NoOverride(s, group_id) ==
    LET color == get_redis(s.redis, Key(0, "default-color"), "white")
        brightness == IntStr(get_redis(s.redis, Key(0, "default-brightness"), StrInt(100)))
    IN  IF ~is_group_on(s.redis, group_id) THEN s
        ELSE set_brightness(set_color(s, color, group_id, FALSE), brightness, group_id, FALSE)

program_sync(s, group_id) ==
    LET user_override ==
            get_redis(s.redis, Key(group_id, "user-override"), StrBool(FALSE)) \notin {"False"}
        color == get_redis(s.redis, Key(0, "default-color"), "white")
        brightness == IntStr(get_redis(s.redis, Key(0, "default-brightness"), StrInt(100)))
    IN  IF ~is_group_on(s.redis, group_id) THEN s
        ELSE IF user_override THEN s
        ELSE set_brightness(set_color(s, color, group_id, FALSE), brightness, group_id, FALSE)

\* run_auto_triggered setting the brightness before the color
run_auto_triggered_BrightnessFirst(s, group_id) ==
    LET color == get_redis(s.redis, Key(0, "default-color"), "white")
        brightness == IntStr(get_redis(s.redis, Key(0, "default-brightness"), StrInt(100)))
    IN  IF ~is_group_auto(s.redis, group_id) THEN s
        ELSE set_color(set_brightness(set_on(s, group_id, FALSE), brightness, group_id, FALSE),
                       color, group_id, FALSE)

run_auto_triggered(s, group_id) ==
    LET color == get_redis(s.redis, Key(0, "default-color"), "white")
        brightness == IntStr(get_redis(s.redis, Key(0, "default-brightness"), StrInt(100)))
    IN  IF ~is_group_auto(s.redis, group_id) THEN s
        ELSE set_brightness(set_color(set_on(s, group_id, FALSE), color, group_id, FALSE),
                            brightness, group_id, FALSE)

\* the "night" branch forcing every operation
run_night_Forced(s, group_id) ==
    LET s1 == set_on(s, group_id, TRUE)
    IN  set_brightness(set_color(s1, "red", group_id, TRUE), 0, group_id, TRUE)

\* the "night" branch of process_command
run_night(s, group_id) ==
    LET s1 == set_on(s, group_id, FALSE)
        color == get_redis(s1.redis, Key(group_id, "color"), "white")
        s2 == IF color # "red"
              THEN set_brightness(set_color(s1, "white", group_id, FALSE), 0, group_id, FALSE)
              ELSE s1
    IN  set_brightness(set_color(s2, "red", group_id, FALSE), 0, group_id, FALSE)

GatedCommands == {"off", "set_color", "set_brightness"}

\* the commands that take manual control, sync among them
ModeCommands_WithSync == {"set_color", "set_brightness", "on", "night", "auto-triggered", "sync"}

ModeCommands == {"set_color", "set_brightness", "on", "night", "auto-triggered"}

\* the first mode check letting every source but trigger through
ManualSkip_TriggerOnly(r, c) ==
    c.command \in GatedCommands /\ c.source = "trigger" /\ ~is_group_auto(r, c.group)

\* process_command from the first mode check to the night check: TRUE when the
\* command is dropped before it is dispatched
ManualSkip(r, c) ==
    c.command \in GatedCommands /\ c.source # "manual" /\ ~is_group_auto(r, c.group)

\* the night check applying to auto-triggered commands only
NightSkip_AutoTriggeredOnly(r, progs, c, t) ==
    /\ c.command = "auto-triggered"
    /\ c.source = "trigger"
    /\ is_night(progs, t)
    /\ disabled_at_night(r, c.group)

NightSkip(r, progs, c, t) ==
    /\ c.command \in ModeCommands
    /\ c.source = "trigger"
    /\ is_night(progs, t)
    /\ disabled_at_night(r, c.group)

\* process_command for one group (the part after the fan-out)
process_group(s, progs, c, t) ==
    IF ManualSkip(s.redis, c) THEN s
    ELSE LET s1 == IF c.command \in ModeCommands /\ c.source = "manual"
                   THEN set_auto_mode(s, c.group, FALSE)
                   ELSE s
         IN  IF NightSkip(s1.redis, progs, c, t) THEN s1
             ELSE CASE c.command = "sync" -> sync(s1, c.group)
                    [] c.command = "on" -> set_on(s1, c.group, FALSE)
                    [] c.command = "off" -> set_auto_mode(set_off(s1, c.group, FALSE), c.group, TRUE)
                    [] c.command = "set_color" -> set_color(s1, c.color, c.group, FALSE)
                    [] c.command = "set_brightness" ->
                           set_brightness(s1, c.brightness[1], c.group, FALSE)
                    [] c.command = "auto-triggered" -> run_auto_triggered(s1, c.group)
                    [] c.command = "program-sync" -> program_sync(s1, c.group)
                    [] c.command = "night" -> run_night(s1, c.group)
                    [] OTHER -> s1

RECURSIVE FanOut(_, _, _, _, _)
\* for group in range(1, 5): data["group"] = group; self.process_command(data)
FanOut(s, progs, c, t, group) ==
    IF group > NumGroups THEN s
    ELSE FanOut(process_group(s, progs, [c EXCEPT !.group = group], t),
                progs, c, t, group + 1)

process_command(s, progs, c, t) ==
    IF c.group = 0 THEN FanOut(s, progs, c, t, 1)
    ELSE process_group(s, progs, c, t)

----------------------------------------------------------------------------
(* service/control.py: the consumer loop and its inputs *)

Colors == {"white", "red"}

\* requested brightness values on both sides of the two thresholds
Brightnesses == {4, 5, 95, 96}

Sources == {"manual", "trigger", "program"}

PlainCommands == {"on", "off", "sync", "program-sync", "auto-triggered", "night", "blink"}

\* the messages of lightcontrol-control-pubsub: data.get("color") and
\* data.get("brightness") are None unless the message carries them
Commands ==
    [command : PlainCommands, group : 0..NumGroups, source : Sources,
     brightness : {<<>>}, color : {None}]
    \cup [command : {"set_color"}, group : 0..NumGroups, source : Sources,
          brightness : {<<>>}, color : Colors]
    \cup [command : {"set_brightness"}, group : 0..NumGroups, source : Sources,
          brightness : {<<b>> : b \in Brightnesses}, color : {None}]

\* instants datetime.datetime.now() is sampled at: Monday 12:00 and Monday 02:00
ClockSamples == {12 * 3600, 2 * 3600}

NoClock == 0 - 1

\* process_command reads the clock only on the trigger branch of the mode commands
ReadsClock(data) == data.command \in ModeCommands /\ data.source = "trigger"

GroupNames == <<"Sanky", "Ruokapoyta", "Keittio", "Eteinen">>

\* set_group_names
NamesStore == [k \in {Key(i, "name") : i \in 1..4} |-> GroupNames[k[1]]]

\* default color and brightness as programs.py leaves them (absent before its first cycle)
DefaultSamples == {<<None, None>>, <<"red", "0">>, <<"white", "97">>}

RECURSIVE PutAll(_, _, _, _)
PutAll(r, groups, key_name, val) ==
    IF groups = {} THEN r
    ELSE LET g == CHOOSE x \in groups : TRUE
         IN  PutAll(Put(r, Key(g, key_name), val), groups \ {g}, key_name, val)

\* the store after LightControlService.__init__: the group names, and the keys
\* other processes own (scheduler defaults, per-group configuration)
InitStore(override, disabled, defaults) ==
    LET r1 == PutAll(NamesStore, override, "user-override", "True")
        r2 == PutAll(r1, disabled, "disabled-night", "True")
        r3 == IF defaults[1] = None THEN r2 ELSE Put(r2, Key(0, "default-color"), defaults[1])
    IN  IF defaults[2] = None THEN r3 ELSE Put(r3, Key(0, "default-brightness"), defaults[2])

\* the group and the force flag of the timer-start message being handled
NoEvent == [group |-> 0, force |-> FALSE]

\* the start_timer call in progress or last made: the message it comes from, its
\* arguments, the number of
\* auto-triggered messages for its group and of timer objects when it was entered,
\* what the debounce check saw (the group's timer, whether it was pending, its
\* recorded expiry, the clock) and decided, the timer it cancelled, the timer it
\* armed and the clock when it armed it
NoRequest == [group |-> 0, length |-> 0, force |-> FALSE, triggers0 |-> 0, nthr0 |-> 0,
              seen |-> FALSE, timer |-> 0, pending |-> FALSE, expiry |-> 0, at |-> 0,
              decision |-> "none", cancelled |-> 0, armed |-> 0, armed_at |-> 0,
              event |-> NoEvent]

\* the groups configured with user-override and disabled-night: group 1, the
\* other groups carry no configuration
ConfigSamples == {{1}}

InitControl ==
    /\ \E configured \in ConfigSamples, defaults \in DefaultSamples :
          redis = InitStore(configured, configured, defaults)
    /\ programs = DefaultPrograms
    /\ ncmd = 0
    /\ hist = <<>>

InitTimers ==
    /\ now = 0
    /\ timers = <<>>
    /\ timers_length = <<>>
    /\ thr = <<>>
    /\ pc = [at |-> "listen", todo |-> <<>>]
    /\ chan = <<>>
    /\ req = NoRequest
    /\ nreq = 0

\* the scheduler before its first cycle
InitPrograms ==
    /\ clock = 0
    /\ triggered = <<>>
    /\ timestamps = <<>>
    /\ cycles = <<>>

\* both consumer loops are listening and have received no malformed payload
InitLoops ==
    /\ cpc = "listen"
    /\ malformed = <<>>

Init == InitControl /\ InitTimers /\ InitPrograms /\ InitLoops

\* one iteration of LightControlService.run on message data, the clock reading t
Handle(data, t) ==
    process_command([redis |-> redis, led |-> <<>>, bcast |-> <<>>], programs, data, t)

\* what is recorded of an observed message: the message, the clock it read, the
\* store before and after, the driver calls and the broadcasts it made
Observation(data, t, s) ==
    [cmd |-> data, at |-> t, pre |-> redis, post |-> s.redis, led |-> s.led, bcast |-> s.bcast]

Clock(data) == IF ReadsClock(data) THEN ClockSamples ELSE {NoClock}

\* LightControlService.run handles a message
ControlRun ==
    /\ cpc = "listen"
    /\ hist = <<>>
    /\ ncmd < MaxCmds
    /\ \E data \in Commands : \E t \in Clock(data) :
          /\ redis' = Handle(data, t).redis
          /\ ncmd' = ncmd + 1
    /\ UNCHANGED <<programs, hist, tmrvars, prgvars, errvars>>

\* LightControlService.run handles a message, observed
ControlRunObserved ==
    /\ cpc = "listen"
    /\ hist = <<>>
    /\ \E data \in Commands : \E t \in Clock(data) :
          LET s == Handle(data, t)
          IN  /\ redis' = s.redis
              /\ hist' = <<Observation(data, t, s)>>
    /\ UNCHANGED <<programs, ncmd, tmrvars, prgvars, errvars>>

\* the next message on the channel is the observed one once more
ControlRunAgain ==
    /\ cpc = "listen"
    /\ Len(hist) = 1
    /\ LET s == Handle(hist[1].cmd, hist[1].at)
       IN  /\ redis' = s.redis
           /\ hist' = Append(hist, Observation(hist[1].cmd, hist[1].at, s))
    /\ UNCHANGED <<programs, ncmd, tmrvars, prgvars, errvars>>

\* payloads of lightcontrol-control-pubsub that are not commands: whether json.loads
\* accepts the text and, of the fields process_command reads with data[...], the
\* ones the decoded value carries (none when it is not a record)
MalformedCommands ==
    {[parses |-> FALSE, keys |-> {}], [parses |-> TRUE, keys |-> {}],
     [parses |-> TRUE, keys |-> {"command", "source"}],
     [parses |-> TRUE, keys |-> {"group", "source"}],
     [parses |-> TRUE, keys |-> {"group", "command"}]}

\* process_command raises (KeyError, TypeError) on data["group"] or in
\* LightControlCommand(data); run catches only what json.loads raises
ControlRaises(payload) ==
    payload.parses /\ ~({"group", "command", "source"} \subseteq payload.keys)

\* what a malformed payload can touch: the store, the timer table, the timers and
\* the published control messages
Snapshot ==
    [redis |-> redis, timers |-> timers, timers_length |-> timers_length,
     thr |-> thr, chan |-> chan]

\* LightControlService.run receives a malformed payload
ControlRunMalformed ==
    /\ cpc = "listen"
    /\ hist = <<>>
    /\ ncmd < MaxCmds
    /\ Len(malformed) < MaxMalformed
    /\ ncmd' = ncmd + 1
    /\ UNCHANGED <<redis, programs, hist, tmrvars, prgvars>>
    /\ \E payload \in MalformedCommands :
          /\ cpc' = IF ControlRaises(payload) THEN "raised" ELSE "listen"
          /\ malformed' = Append(malformed,
                [loop |-> "control", payload |-> payload, pre |-> Snapshot,
                 post |-> Snapshot', raised |-> ControlRaises(payload)])

NextControl == ControlRun \/ ControlRunObserved \/ ControlRunAgain \/ ControlRunMalformed

SpecControl == Init /\ [][NextControl]_vars

----------------------------------------------------------------------------
(* service/timers.py *)

\* the messages of lightcontrol-timer-pubsub: triggers.py sends {"group": g},
\* programs.py sends {"group": 0, "duration": d, "force": true}
TimerMessages ==
    [group : 0..NumGroups, duration : {<<>>, <<60>>, <<120>>}, force : BOOLEAN]

\* lightcontrol-timer-length as programs.py writes it (absent before its first cycle)
TimerLengthSamples == {None, "120", "900"}

\* the store the timer process reads: the default timer length
InitTimerStore ==
    \E length \in TimerLengthSamples :
        redis = IF length = None THEN NamesStore
                ELSE Put(NamesStore, Key(0, "timer-length"), length)

\* float(s) of the stored timer length
FloatStr(s) == CHOOSE n \in 0..1000 : StrInt(n) = s

\* the timer length LightTimers.run settles on
TimerLength(r, data) ==
    IF data.duration = <<>>
    THEN (IF Get(r, Key(0, "timer-length")) = None THEN 120
          ELSE FloatStr(Get(r, Key(0, "timer-length"))))
    ELSE data.duration[1]

\* the start_timer calls one message leads to, in order
Calls(r, data) ==
    IF data.group = 0
    THEN [i \in 1..NumGroups |-> [group |-> i, length |-> TimerLength(r, data), force |-> FALSE]]
    ELSE <<[group |-> data.group, length |-> TimerLength(r, data), force |-> data.force]>>

\* json.dumps with the wrong source
TriggerCommand_Manual(group_id, command) ==
    [group |-> group_id, command |-> command, source |-> "manual"]

\* json.dumps({"group": g, "command": c, "source": "trigger"})
TriggerCommand(group_id, command) ==
    [group |-> group_id, command |-> command, source |-> "trigger"]

\* the auto-triggered messages published so far for a group
AutoTriggers(g) ==
    Cardinality({i \in DOMAIN chan :
        chan[i] = [group |-> g, command |-> "auto-triggered", source |-> "trigger"]})

\* the off messages published so far for a group
Offs(g) ==
    Cardinality({i \in DOMAIN chan :
        chan[i] = [group |-> g, command |-> "off", source |-> "trigger"]})

\* start_timer is entered, nthr timer objects existing
Enter(call, nthr) ==
    [NoRequest EXCEPT !.group = call.group, !.length = call.length, !.force = call.force,
                      !.triggers0 = AutoTriggers(call.group), !.nthr0 = nthr]

\* LightTimers.run: the next message arrives
TimerRun ==
    /\ pc.at = "listen"
    /\ nreq < MaxReq
    /\ \E data \in TimerMessages :
          /\ pc' = [at |-> "publish", todo |-> Calls(redis, data)]
          /\ req' = [Enter(Head(Calls(redis, data)), Len(thr)) EXCEPT
                        !.event = [group |-> data.group, force |-> data.force]]
    /\ nreq' = nreq + 1
    /\ UNCHANGED <<ctlvars, prgvars, errvars, now, timers, timers_length, thr, chan>>

\* payloads of lightcontrol-timer-pubsub that are not timer-start messages
MalformedTimerMessages ==
    {[parses |-> FALSE, keys |-> {}], [parses |-> TRUE, keys |-> {}],
     [parses |-> TRUE, keys |-> {"duration", "force"}]}

\* LightTimers.run raises: json.loads is not guarded, data.get needs a record and
\* data["group"] the field
TimerRaises(payload) == ~payload.parses \/ "group" \notin payload.keys

\* LightTimers.run receives a malformed payload
TimerRunMalformed ==
    /\ pc.at = "listen"
    /\ nreq < MaxReq
    /\ Len(malformed) < MaxMalformed
    /\ nreq' = nreq + 1
    /\ UNCHANGED <<ctlvars, prgvars, cpc, now, timers, timers_length, thr, chan, req>>
    /\ \E payload \in MalformedTimerMessages :
          /\ pc' = IF TimerRaises(payload) THEN [at |-> "raised", todo |-> <<>>] ELSE pc
          /\ malformed' = Append(malformed,
                [loop |-> "timers", payload |-> payload, pre |-> Snapshot,
                 post |-> Snapshot', raised |-> TimerRaises(payload)])

\* start_timer: publish auto-triggered
StartTimerPublish ==
    /\ pc.at = "publish"
    /\ chan' = Append(chan, TriggerCommand(Head(pc.todo).group, "auto-triggered"))
    /\ pc' = [pc EXCEPT !.at = "check"]
    /\ UNCHANGED <<ctlvars, prgvars, errvars, now, timers, timers_length, thr, req, nreq>>

\* the comparison of start_timer flipped
Debounced_Flipped(force, current_timer_expire_time, new_expire_time) ==
    ~force /\ current_timer_expire_time < new_expire_time

\* datetime.timedelta(seconds=length) on the timer process's clock, which
\* this model advances in minutes
Interval(length) == length \div 60

\* the comparison of start_timer: TRUE when the request is skipped
Debounced(force, current_timer_expire_time, new_expire_time) ==
    ~force /\ current_timer_expire_time > new_expire_time

\* start_timer returns: the next call of the fan-out, or the next message
Return(r, nthr) ==
    IF Len(pc.todo) > 1
    THEN /\ pc' = [at |-> "publish", todo |-> Tail(pc.todo)]
         /\ req' = [Enter(pc.todo[2], nthr) EXCEPT !.event = req.event]
    ELSE /\ pc' = [at |-> "listen", todo |-> <<>>]
         /\ req' = r

\* start_timer: the debounce decision
StartTimerCheck ==
    /\ pc.at = "check"
    /\ LET call == Head(pc.todo)
           seen == call.group \in DOMAIN timers_length
           expiry == IF seen THEN timers_length[call.group] ELSE 0
           timer == IF call.group \in DOMAIN timers THEN timers[call.group] ELSE 0
           skip == seen /\ Debounced(call.force, expiry, now + Interval(call.length))
           checked == [req EXCEPT !.seen = seen, !.expiry = expiry, !.at = now,
                                  !.timer = timer,
                                  !.pending = timer # 0 /\ thr[timer].state = "waiting",
                                  !.decision = IF skip THEN "skip" ELSE "arm"]
       IN  IF skip THEN Return(checked, Len(thr))
           ELSE pc' = [pc EXCEPT !.at = "cancel"] /\ req' = checked
    /\ UNCHANGED <<ctlvars, prgvars, errvars, now, timers, timers_length, thr, chan, nreq>>

\* cancel() left out
Cancel_Missing(t) == t

\* threading.Timer.cancel()
Cancel(t) ==
    IF t.state = "waiting" THEN [t EXCEPT !.state = "cancelled", !.cancelled = TRUE] ELSE t

\* start_timer: cancel the old timer
StartTimerCancel ==
    /\ pc.at = "cancel"
    /\ LET call == Head(pc.todo)
           old == IF call.group \in DOMAIN timers THEN timers[call.group] ELSE 0
       IN  /\ thr' = IF old = 0 THEN thr ELSE [thr EXCEPT ![old] = Cancel(@)]
           /\ req' = [req EXCEPT !.cancelled = old]
    /\ pc' = [pc EXCEPT !.at = "arm"]
    /\ UNCHANGED <<ctlvars, prgvars, errvars, now, timers, timers_length, chan, nreq>>

\* start_timer: start the new timer and record it
StartTimerArm ==
    /\ pc.at = "arm"
    /\ LET call == Head(pc.todo)
           timer == Len(thr) + 1
           expiry == now + Interval(call.length)
       IN  /\ thr' = Append(thr, [group |-> call.group, deadline |-> expiry,
                                  state |-> "waiting", cancelled |-> FALSE, offs |-> 0])
           /\ timers' = [g \in DOMAIN timers \cup {call.group} |->
                            IF g = call.group THEN timer ELSE timers[g]]
           /\ timers_length' = [g \in DOMAIN timers_length \cup {call.group} |->
                                   IF g = call.group THEN expiry ELSE timers_length[g]]
           /\ Return([req EXCEPT !.armed = timer, !.armed_at = now], timer)
    /\ UNCHANGED <<ctlvars, prgvars, errvars, now, chan, nreq>>

\* Timer.run without the check for cancel()
Expired_IgnoresCancel(t) == t.state \in {"waiting", "cancelled"} /\ now >= t.deadline

\* Timer.run: the interval has passed and cancel() was not called
Expired(t) == t.state = "waiting" /\ now >= t.deadline

\* a timer thread wakes up after its interval: off_timer
OffTimer ==
    \E i \in DOMAIN thr :
        /\ Expired(thr[i])
        /\ thr' = [thr EXCEPT ![i].state = "fired", ![i].offs = @ + 1]
        /\ chan' = Append(chan, TriggerCommand(thr[i].group, "off"))
        /\ UNCHANGED <<ctlvars, prgvars, errvars, now, timers, timers_length, pc, req, nreq>>

\* a minute passes
Tick ==
    /\ now < MaxTime
    /\ now' = now + 1
    /\ UNCHANGED <<ctlvars, prgvars, errvars, timers, timers_length, thr, pc, chan, req, nreq>>

NextTimers ==
    \/ TimerRun
    \/ TimerRunMalformed
    \/ StartTimerPublish
    \/ StartTimerCheck
    \/ StartTimerCancel
    \/ StartTimerArm
    \/ OffTimer
    \/ Tick

InitTimerProcess ==
    /\ InitTimerStore
    /\ programs = DefaultPrograms
    /\ ncmd = 0
    /\ hist = <<>>
    /\ InitTimers
    /\ InitPrograms
    /\ InitLoops

SpecTimers == InitTimerProcess /\ [][NextTimers]_vars

\* time passes and every timer thread that is due runs
SpecTimersFair == SpecTimers /\ WF_vars(Tick) /\ WF_vars(OffTimer)

----------------------------------------------------------------------------
(* service/programs.py: the scheduler loop.  sc = [redis, triggered,       *)
(* timer_pub, control_pub] is threaded through the statements of a cycle.  *)

PollPeriod == 20    \* time.sleep(20)

ProgramNames == {"morning-weekday", "morning-weekend", "evening-weekday", "evening-weekend"}

\* programs of a minute or so, as program_tests.py builds them
ShortPrograms ==
    [p \in ProgramNames |->
        CASE p = "morning-weekday" -> [start_at |-> <<8, 15>>, duration |-> 60, brightness |-> <<100>>]
          [] p = "morning-weekend" -> [start_at |-> <<9, 30>>, duration |-> 60, brightness |-> <<100>>]
          [] p = "evening-weekday" -> [start_at |-> <<22, 15>>, duration |-> 45, brightness |-> <<>>]
          [] p = "evening-weekend" -> [start_at |-> <<23, 0>>, duration |-> 45, brightness |-> <<>>]]

\* a weekday evening program overlapping the morning one, a weekend evening
\* program running over midnight and carrying a brightness
OverlapPrograms ==
    [p \in ProgramNames |->
        CASE p = "morning-weekday" -> [start_at |-> <<8, 15>>, duration |-> 60, brightness |-> <<>>]
          [] p = "morning-weekend" -> [start_at |-> <<9, 30>>, duration |-> 40, brightness |-> <<100>>]
          [] p = "evening-weekday" -> [start_at |-> <<8, 15>>, duration |-> 120, brightness |-> <<>>]
          [] p = "evening-weekend" -> [start_at |-> <<23, 59>>, duration |-> 120, brightness |-> <<40>>]]

ProgramSamples == {DefaultPrograms, ShortPrograms, OverlapPrograms}

\* LightProgram.dump
dump(program) ==
    [start_at |-> program.start_at, duration |-> program.duration,
     brightness |-> program.brightness]

\* percent_done returning None at the end of the window
percent_done_OpenEnd(program, t) ==
    LET start == start_datetime(program, t, TRUE)
        end == end_datetime(program, t, TRUE)
    IN  IF start > t \/ t >= end THEN <<>> ELSE <<t - start, program.duration>>

\* percent_done: <<>> for None, else the fraction <<numerator, denominator>> of
\* (now - start).total_seconds() / duration
percent_done(program, t) ==
    LET start == start_datetime(program, t, TRUE)
        end == end_datetime(program, t, TRUE)
    IN  IF start > t \/ t > end THEN <<>> ELSE <<t - start, program.duration>>

\* is_program_running with the endpoints of the window included
is_program_running_Inclusive(t, program) ==
    t >= start_datetime(program, t, TRUE) /\ t <= end_datetime(program, t, TRUE)

is_program_running(t, program) ==
    t > start_datetime(program, t, TRUE) /\ t < end_datetime(program, t, TRUE)

\* <<>> for None
get_running_program(progs, t) ==
    LET day_programs == get_day_programs(progs, Weekday(t))
    IN  IF is_program_running(t, day_programs[1]) THEN <<day_programs[1]>>
        ELSE IF is_program_running(t, day_programs[2]) THEN <<day_programs[2]>>
        ELSE <<>>

\* the LightProgram built from the definition stored under a name
ProgramOf(progs, p) ==
    LightProgram(IF p \in {"morning-weekday", "evening-weekday"} THEN "weekday" ELSE "weekend",
                 IF p \in {"morning-weekday", "morning-weekend"} THEN "morning" ELSE "evening",
                 progs[p])

\* refresh_program_timestamp: next_start_at and next_end_at of the four programs
refresh_program_timestamp(progs, t) ==
    [p \in ProgramNames |->
        <<start_datetime(ProgramOf(progs, p), t, TRUE), end_datetime(ProgramOf(progs, p), t, TRUE)>>]

\* the two default timer lengths exchanged
set_default_timer_length_Swapped(sc, progs, t) ==
    [sc EXCEPT !.redis = Put(@, Key(0, "timer-length"),
                             StrInt(IF is_day(progs, t) THEN 2 * 60 ELSE 15 * 60))]

set_default_timer_length(sc, progs, t) ==
    [sc EXCEPT !.redis = Put(@, Key(0, "timer-length"),
                             StrInt(IF is_day(progs, t) THEN 15 * 60 ELSE 2 * 60))]

\* the key of a program's running flag
RunningKey(program) == Key(0, "running-" \o program.tod \o "-" \o program.period)

\* the running flag read as set when the key is absent
Enabled_Default(r, program) == Get(r, RunningKey(program)) \in {"true", "True", None}

\* execute_program's first test
Enabled(r, program) == Get(r, RunningKey(program)) \in {"true", "True"}

\* the name of a program's one-shot key
TriggeredKey(program) == program.period \o "-" \o program.tod

\* redis.get of a key written with setex: gone once its time to live is over
GetLive(tr, key, t) ==
    IF key \in DOMAIN tr /\ tr[key].expires > t THEN <<tr[key]>> ELSE <<>>

\* redis.setex(key, ttl, json.dumps(program.dump()))
SetEx(tr, key, ttl, val, t) ==
    [k \in DOMAIN tr \cup {key} |->
        IF k = key THEN [start_at |-> val.start_at, duration |-> val.duration,
                         brightness |-> val.brightness, expires |-> t + ttl]
        ELSE tr[k]]

\* the test of the stored one-shot key without the comparison of the parameters
AlreadyTriggered_AnyKey(program_triggered, program) == program_triggered # <<>>

\* the morning program has already been activated with these parameters
AlreadyTriggered(program_triggered, program) ==
    /\ program_triggered # <<>>
    /\ program_triggered[1].duration = program.duration
    /\ program_triggered[1].start_at = program.start_at

\* whole percentages p for which the double 1 - (100 - p)/100, times 100, is below p
FloatShort == {7, 8, 9, 10, 11, 19, 20, 21, 22, 32, 33, 44, 45, 66}

\* the ramp running upwards
RampBrightness_Up(done) == (done[1] * 100) \div done[2]

\* int((1 - done) * 100) in double arithmetic
RampBrightness(done) ==
    LET scaled == (done[2] - done[1]) * 100
        exact == scaled \div done[2]
    IN  IF scaled % done[2] = 0 /\ exact \in FloatShort THEN exact - 1 ELSE exact

\* json.dumps of create_morning_program_timer's data
TimerStart(length, force) == [group |-> 0, duration |-> <<length>>, force |-> force]

ProgramSyncCommand == [command |-> "program-sync", group |-> 0, source |-> "program"]

execute_program(sc, progs, t, program) ==
    IF ~Enabled(sc.redis, program) THEN sc
    ELSE LET r1 == IF program.brightness # <<>>
                   THEN Put(sc.redis, Key(0, "default-brightness"), StrInt(program.brightness[1]))
                   ELSE sc.redis
             r2 == Put(r1, Key(0, "default-color"),
                       IF is_night(progs, t) THEN "red" ELSE "white")
             sc2 == [sc EXCEPT !.redis = r2]
             program_triggered_key == TriggeredKey(program)
             done == percent_done(program, t)
         IN  IF program.tod = "morning"
             THEN IF AlreadyTriggered(GetLive(sc.triggered, program_triggered_key, t), program)
                  THEN sc2
                  ELSE [sc2 EXCEPT
                          !.timer_pub = Append(@, TimerStart(program.duration, TRUE)),
                          !.triggered = SetEx(@, program_triggered_key,
                                              program.duration + 10, dump(program), t)]
             ELSE IF done = <<>> THEN sc2
                  ELSE [sc2 EXCEPT
                          !.redis = Put(@, Key(0, "default-brightness"),
                                        StrInt(RampBrightness(done))),
                          !.control_pub = Append(@, ProgramSyncCommand)]

\* the branch of run for a cycle without a running program
run_idle(sc, progs, t) ==
    LET sc1 == set_default_timer_length(sc, progs, t)
        color == IF is_night(progs, t) THEN "red" ELSE "white"
        brightness == IF is_night(progs, t) THEN 0 ELSE 100
    IN  [sc1 EXCEPT !.redis = Put(Put(@, Key(0, "default-color"), color),
                                  Key(0, "default-brightness"), StrInt(brightness))]

\* instants of the day the scheduler is started at, seconds after midnight
TimeSamples ==
    {1 * 3600, 7 * 3600 + 34 * 60 + 5, 8 * 3600 + 14 * 60 + 40, 8 * 3600 + 16 * 60 + 16,
     8 * 3600 + 34 * 60 + 5,
     9 * 3600 + 14 * 60 + 40, 9 * 3600 + 29 * 60 + 40, 9 * 3600 + 34 * 60 + 5,
     16 * 3600 + 34 * 60 + 5, 22 * 3600 + 14 * 60 + 40, 22 * 3600 + 15 * 60 + 5,
     22 * 3600 + 29 * 60 + 40, 22 * 3600 + 59 * 60 + 20, 23 * 3600 + 5,
     23 * 3600 + 29 * 60 + 20, 23 * 3600 + 58 * 60 + 40, 23 * 3600 + 59 * 60 + 30}

Instants == {d * DayLen + s : d \in 0..6, s \in TimeSamples}

\* the running flags: none set, all set, the evening programs only
FlagSamples ==
    {[p \in ProgramNames |-> None], [p \in ProgramNames |-> "True"],
     [p \in ProgramNames |->
        IF p \in {"evening-weekday", "evening-weekend"} THEN "true" ELSE "false"]}

RECURSIVE PutFlags(_, _, _)
PutFlags(r, names, flags) ==
    IF names = {} THEN r
    ELSE LET p == CHOOSE x \in names : TRUE
             r1 == IF flags[p] = None THEN r ELSE Put(r, Key(0, "running-" \o p), flags[p])
         IN  PutFlags(r1, names \ {p}, flags)

\* the scheduler is started at some instant of the week, on some program
\* definitions and running flags
InitScheduler ==
    /\ \E flags \in FlagSamples : redis = PutFlags(NamesStore, ProgramNames, flags)
    /\ programs \in ProgramSamples
    /\ ncmd = 0
    /\ hist = <<>>
    /\ InitTimers
    /\ clock \in Instants
    /\ triggered = <<>>
    /\ timestamps = <<>>
    /\ cycles = <<>>
    /\ InitLoops

\* what is recorded of a cycle: the instant, the program definitions, the programs
\* of the day, the windows and percent_done of the four programs, is_day and
\* is_night, the running
\* program, the store and the one-shot keys before and after execute_program (or
\* the idle branch), and what was published
Cycle(t, program, before, after) ==
    [now |-> t, programs |-> programs, day |-> get_day_programs(programs, Weekday(t)),
     next |-> refresh_program_timestamp(programs, t),
     done |-> [p \in ProgramNames |-> percent_done(ProgramOf(programs, p), t)],
     is_day |-> is_day(programs, t), is_night |-> is_night(programs, t),
     program |-> program,
     pre |-> before.redis, post |-> after.redis,
     tpre |-> before.triggered, tpost |-> after.triggered,
     timer_pub |-> after.timer_pub, control_pub |-> after.control_pub]

Sched == [redis |-> redis, triggered |-> triggered, timer_pub |-> <<>>, control_pub |-> <<>>]

\* one iteration of LightPrograms.run with no program running
RunIdle ==
    /\ Len(cycles) < MaxCycles
    /\ get_running_program(programs, clock) = <<>>
    /\ LET after == run_idle(Sched, programs, clock)
       IN  /\ redis' = after.redis
           /\ triggered' = after.triggered
           /\ cycles' = Append(cycles, Cycle(clock, <<>>, Sched, after))
    /\ timestamps' = refresh_program_timestamp(programs, clock)
    /\ clock' = clock + PollPeriod
    /\ UNCHANGED <<programs, ncmd, hist, tmrvars, errvars>>

\* one iteration of LightPrograms.run with a running program
RunProgram ==
    /\ Len(cycles) < MaxCycles
    /\ get_running_program(programs, clock) # <<>>
    /\ LET program == get_running_program(programs, clock)
           before == set_default_timer_length(Sched, programs, clock)
           after == execute_program(before, programs, clock, program[1])
       IN  /\ redis' = after.redis
           /\ triggered' = after.triggered
           /\ cycles' = Append(cycles, Cycle(clock, program, before, after))
    /\ timestamps' = refresh_program_timestamp(programs, clock)
    /\ clock' = clock + PollPeriod
    /\ UNCHANGED <<programs, ncmd, hist, tmrvars, errvars>>

\* the program definitions are rewritten in the store between two cycles
Reconfigure ==
    /\ cycles # <<>>
    /\ Len(cycles) < MaxCycles
    /\ programs = cycles[1].programs
    /\ programs' \in ProgramSamples \ {programs}
    /\ UNCHANGED <<redis, ncmd, hist, tmrvars, errvars, clock, triggered, timestamps, cycles>>

NextPrograms == RunIdle \/ RunProgram \/ Reconfigure

SpecPrograms == InitScheduler /\ [][NextPrograms]_vars

----------------------------------------------------------------------------
(* The timer manager and the command processor together: the command        *)
(* processor consumes lightcontrol-control-pubsub, which the timer manager   *)
(* publishes on, in order.  The wall clock stays at one instant, by day or   *)
(* by night, for the few minutes the timer process's clock covers.           *)

\* the timer-start messages of triggers.py for one group, and the message of the
\* morning one-shot
SystemMessages ==
    {[group |-> g, duration |-> <<>>, force |-> FALSE] : g \in Groups}
    \cup {TimerStart(60, TRUE)}

\* groups a manual command has taken out of auto mode before the observed run
ManualSamples == {{}, {NumGroups}}

InitSystem ==
    /\ \E manual \in ManualSamples :
          redis = PutAll(InitStore({}, {1}, <<None, None>>), manual, "auto", "False")
    /\ programs = DefaultPrograms
    /\ ncmd = 0
    /\ hist = <<>>
    /\ InitTimers
    /\ clock \in ClockSamples
    /\ triggered = <<>>
    /\ timestamps = <<>>
    /\ cycles = <<>>
    /\ InitLoops

\* json.loads of a message of timers.py, then LightControlCommand(data)
Decode(message) ==
    [command |-> message.command, group |-> message.group, source |-> message.source,
     brightness |-> <<>>, color |-> None]

\* LightTimers.run: the next message arrives
SystemRun ==
    /\ pc.at = "listen"
    /\ nreq < MaxReq
    /\ \E data \in SystemMessages :
          /\ pc' = [at |-> "publish", todo |-> Calls(redis, data)]
          /\ req' = [Enter(Head(Calls(redis, data)), Len(thr)) EXCEPT
                        !.event = [group |-> data.group, force |-> data.force]]
    /\ nreq' = nreq + 1
    /\ UNCHANGED <<ctlvars, prgvars, errvars, now, timers, timers_length, thr, chan>>

\* LightControlService.run handles the next message of the channel
Deliver ==
    /\ cpc = "listen"
    /\ Len(hist) < Len(chan)
    /\ LET data == Decode(chan[Len(hist) + 1])
           t == IF ReadsClock(data) THEN clock ELSE NoClock
           s == Handle(data, t)
       IN  /\ redis' = s.redis
           /\ hist' = Append(hist, Observation(data, t, s))
    /\ UNCHANGED <<programs, ncmd, tmrvars, prgvars, errvars>>

NextSystem ==
    \/ SystemRun
    \/ StartTimerPublish
    \/ StartTimerCheck
    \/ StartTimerCancel
    \/ StartTimerArm
    \/ OffTimer
    \/ Tick
    \/ Deliver

SpecSystem == InitSystem /\ [][NextSystem]_vars

\* a published message is waiting for the command processor: ENABLED Deliver
Waiting == cpc = "listen" /\ Len(hist) < Len(chan)

\* time passes, every timer thread that is due runs, and the command processor
\* handles every message published to it: weak fairness of Tick, of OffTimer and
\* of Deliver, the last with its enabling condition written out (Deliver is the
\* one action that changes hist)
SpecSystemFair ==
    /\ SpecSystem
    /\ WF_vars(Tick)
    /\ WF_vars(OffTimer)
    /\ ([]<>(~Waiting) \/ []<><<hist' # hist>>_vars)

----------------------------------------------------------------------------
(* Properties of the command processor, stated over the observed messages *)

Observed == {hist[i] : i \in DOMAIN hist}

\* what the store holds for a group attribute; None when the key is absent
Stored(r, g, attribute) == Get(r, Key(g, attribute))

AutoMode(r, g) == Stored(r, g, "auto") \in {None, "True"}

StoredOn(r, g) == Stored(r, g, "on") = "True"

\* the brightness slot that goes with a color
SlotOf(color) == IF color \in {None, "white"} THEN "white_brightness" ELSE "rgb_brightness"

GroupAttributes == {"on", "color", "white_brightness", "rgb_brightness", "auto"}

SameAttributes(r1, r2, g, attributes) ==
    \A a \in attributes : Stored(r1, g, a) = Stored(r2, g, a)

DefaultColor(r) ==
    IF Stored(r, 0, "default-color") = None THEN "white" ELSE Stored(r, 0, "default-color")

\* the global default brightness after the hysteresis, as the store holds it
DefaultBrightness(r) ==
    LET b == IF Stored(r, 0, "default-brightness") = None THEN 100
             ELSE IntStr(Stored(r, 0, "default-brightness"))
    IN  IF b < 5 THEN "0" ELSE IF b > 95 THEN "100" ELSE StrInt(b)

\* the night policy drops the observed command for group g
NightDropped(o, g) ==
    /\ o.cmd.source = "trigger"
    /\ o.cmd.command \in {"set_color", "set_brightness", "on", "night", "auto-triggered"}
    /\ is_night(programs, o.at)
    /\ Stored(o.pre, g, "disabled-night") = "True"

DriverCalls(o, g) == SelectSeq(o.led, LAMBDA call : call.group = g)

Broadcasts(o, g) == SelectSeq(o.bcast, LAMBDA b : b.id = g)

Called(o, g, op) == \E i \in DOMAIN o.led : o.led[i].group = g /\ o.led[i].op = op

\* C1: a non-manual off / set_color / set_brightness for a single group whose
\* autoMode is false is dropped: no driver call, no broadcast, and none of the
\* group's stored attributes changes.
C1_ManualOverrideDrops ==
    \A o \in Observed :
        (/\ o.cmd.group # 0
         /\ o.cmd.command \in {"off", "set_color", "set_brightness"}
         /\ o.cmd.source # "manual"
         /\ ~AutoMode(o.pre, o.cmd.group))
        => /\ o.led = <<>>
           /\ o.bcast = <<>>
           /\ SameAttributes(o.pre, o.post, o.cmd.group, GroupAttributes)
           /\ o.post = o.pre

C1_Witness ==
    \E o \in Observed :
        /\ o.cmd.group # 0
        /\ o.cmd.command = "off"
        /\ o.cmd.source = "trigger"
        /\ ~AutoMode(o.pre, o.cmd.group)
        /\ StoredOn(o.pre, o.cmd.group)
        /\ StoredOn(o.post, o.cmd.group)

\* C2: {group 0, off, manual} leaves every group stored off and in auto mode,
\* whatever the groups held before.
C2_AllOff ==
    \A o \in Observed :
        (o.cmd.group = 0 /\ o.cmd.command = "off" /\ o.cmd.source = "manual")
        => \A g \in Groups :
              /\ Stored(o.post, g, "on") = "False"
              /\ Stored(o.post, g, "auto") = "True"

C2_Witness ==
    \E o \in Observed :
        /\ o.cmd.group = 0 /\ o.cmd.command = "off" /\ o.cmd.source = "manual"
        /\ \E g \in Groups : StoredOn(o.pre, g) /\ ~AutoMode(o.pre, g)
        /\ \E g \in Groups : Stored(o.pre, g, "on") = None
        /\ \A g \in Groups : Stored(o.post, g, "on") = "False"

\* the value a dispatched single-suboperation command applies, and the key it applies to
Applied(o) ==
    CASE o.cmd.command = "on" -> <<"on", "True">>
      [] o.cmd.command = "off" -> <<"on", "False">>
      [] o.cmd.command = "set_color" -> <<"color", o.cmd.color>>
      [] o.cmd.command = "set_brightness" ->
            <<SlotOf(Stored(o.pre, o.cmd.group, "color")),
              IF o.cmd.brightness[1] < 5 THEN "0"
              ELSE IF o.cmd.brightness[1] > 95 THEN "100"
              ELSE StrInt(o.cmd.brightness[1])>>

\* the observed command reaches its suboperation
Dispatched(o) ==
    /\ o.cmd.group # 0
    /\ o.cmd.command \in {"on", "off", "set_color", "set_brightness"}
    /\ ~NightDropped(o, o.cmd.group)
    /\ (o.cmd.command \in {"off", "set_color", "set_brightness"} /\ o.cmd.source # "manual")
          => AutoMode(o.pre, o.cmd.group)

\* C3: applying, without force, a value equal to the persisted one makes no driver
\* call, no store write to the attribute and no broadcast; a set_brightness that is
\* handled twice in a row makes no driver call and no broadcast the second time, so
\* that the two together make exactly one of each when the first one changed the
\* persisted value.
C3_Idempotent ==
    /\ \A o \in Observed :
          (Dispatched(o) /\ Stored(o.pre, o.cmd.group, Applied(o)[1]) = Applied(o)[2])
          => /\ o.led = <<>>
             /\ o.bcast = <<>>
             /\ SameAttributes(o.pre, o.post, o.cmd.group, GroupAttributes \ {"auto"})
    /\ \A o \in Observed :
          (Dispatched(o) /\ Stored(o.pre, o.cmd.group, Applied(o)[1]) # Applied(o)[2])
          => /\ Len(o.led) = 1
             /\ Len(o.bcast) = 1
             /\ Stored(o.post, o.cmd.group, Applied(o)[1]) = Applied(o)[2]
    /\ (Len(hist) = 2 /\ Dispatched(hist[1]) /\ hist[1].cmd.command = "set_brightness")
          => /\ hist[2].led = <<>>
             /\ hist[2].bcast = <<>>
             /\ Len(hist[1].led) + Len(hist[2].led) <= 1
             /\ Stored(hist[1].pre, hist[1].cmd.group, Applied(hist[1])[1]) # Applied(hist[1])[2]
                   => /\ Len(hist[1].led) + Len(hist[2].led) = 1
                      /\ Len(hist[1].bcast) + Len(hist[2].bcast) = 1

C3_Witness ==
    /\ Len(hist) = 2
    /\ Dispatched(hist[1])
    /\ hist[1].cmd.command = "set_brightness"
    /\ hist[1].cmd.source = "trigger"
    /\ Len(hist[1].led) = 1
    /\ hist[1].led[1].op = "set_brightness"
    /\ hist[2].led = <<>>
    /\ hist[2].bcast = <<>>

\* the group is on with the scheduler's default color and, in the slot of that
\* color, the default brightness after the hysteresis
OnWithDefaults(o, g) ==
    /\ Stored(o.post, g, "on") = "True"
    /\ Stored(o.post, g, "color") = DefaultColor(o.pre)
    /\ Stored(o.post, g, SlotOf(DefaultColor(o.pre))) = DefaultBrightness(o.pre)

AutoTriggered(o) ==
    /\ o.cmd.group # 0
    /\ o.cmd.command = "auto-triggered"
    /\ ~NightDropped(o, o.cmd.group)

\* C8 as stated: an auto-triggered command, from any source and in any autoMode,
\* unless the night policy drops it, leaves the group on with the default color and
\* the clamped default brightness.
C8_AnySourceAnyMode ==
    \A o \in Observed : AutoTriggered(o) => OnWithDefaults(o, o.cmd.group)

\* C8 amended: an auto-triggered command from source trigger or program for a group
\* whose autoMode is true, unless the night policy drops it, leaves the group on with
\* the default color (white when none is stored) and, in the slot of that color, the
\* clamped default brightness (100 when none is stored); from source manual, or for
\* a group whose autoMode is false, it makes no driver call and leaves the group's
\* on, color and brightness as they were.
C8_AutoTriggered ==
    \A o \in Observed :
        AutoTriggered(o) =>
            IF o.cmd.source # "manual" /\ AutoMode(o.pre, o.cmd.group)
            THEN OnWithDefaults(o, o.cmd.group)
            ELSE /\ o.led = <<>>
                 /\ o.bcast = <<>>
                 /\ SameAttributes(o.pre, o.post, o.cmd.group, GroupAttributes \ {"auto"})

C8_Witness ==
    \E o \in Observed :
        /\ AutoTriggered(o)
        /\ o.cmd.source = "trigger"
        /\ AutoMode(o.pre, o.cmd.group)
        /\ ~StoredOn(o.pre, o.cmd.group)
        /\ Stored(o.pre, 0, "default-brightness") = "97"
        /\ Stored(o.post, o.cmd.group, "white_brightness") = "100"
        /\ Len(o.led) = 3

ProgramSync(o) == o.cmd.group # 0 /\ o.cmd.command = "program-sync"

\* C9: program-sync is a no-op for a group that is stored off or has userOverride;
\* otherwise it leaves the default color and, in the slot of that color, the clamped
\* default brightness, calling the driver only for the attributes that changed.
C9_ProgramSync ==
    \A o \in Observed :
        ProgramSync(o) =>
            LET g == o.cmd.group
                color == DefaultColor(o.pre)
                slot == SlotOf(color)
            IN  IF ~StoredOn(o.pre, g) \/ Stored(o.pre, g, "user-override") = "True"
                THEN o.led = <<>> /\ o.bcast = <<>> /\ o.post = o.pre
                ELSE /\ Stored(o.post, g, "color") = color
                     /\ Stored(o.post, g, slot) = DefaultBrightness(o.pre)
                     /\ Called(o, g, "set_color") <=> Stored(o.pre, g, "color") # color
                     /\ Called(o, g, "set_brightness")
                           <=> Stored(o.pre, g, slot) # DefaultBrightness(o.pre)
                     /\ \A i \in DOMAIN o.led :
                           o.led[i].group = g /\ o.led[i].op \in {"set_color", "set_brightness"}
                     /\ Len(o.led) <= 2
                     /\ Len(o.bcast) = Len(o.led)

C9_Witness ==
    \E o \in Observed :
        /\ ProgramSync(o)
        /\ StoredOn(o.pre, o.cmd.group)
        /\ Stored(o.pre, o.cmd.group, "user-override") = None
        /\ Stored(o.pre, o.cmd.group, "color") = DefaultColor(o.pre)
        /\ Len(o.led) = 1
        /\ o.led[1].op = "set_brightness"
        /\ Stored(o.post, o.cmd.group, SlotOf(DefaultColor(o.pre))) = DefaultBrightness(o.pre)

Night(o) ==
    /\ o.cmd.group # 0
    /\ o.cmd.command = "night"
    /\ ~NightDropped(o, o.cmd.group)

OnRedZero(r, g) ==
    /\ Stored(r, g, "on") = "True"
    /\ Stored(r, g, "color") = "red"
    /\ Stored(r, g, "rgb_brightness") = "0"

Addresses(o, g) == o.cmd.group = g \/ o.cmd.group = 0

\* C11: while it is night, a trigger-sourced set_color / set_brightness / on / night /
\* auto-triggered command makes no driver call and no broadcast for a group with
\* disabled-night set and changes none of its stored attributes; such a group that
\* is off stays off.
C11_NightPolicy ==
    \A o \in Observed : \A g \in Groups :
        (/\ Addresses(o, g)
         /\ o.cmd.source = "trigger"
         /\ o.cmd.command \in {"set_color", "set_brightness", "on", "night", "auto-triggered"}
         /\ is_night(programs, o.at)
         /\ Stored(o.pre, g, "disabled-night") = "True")
        => /\ DriverCalls(o, g) = <<>>
           /\ Broadcasts(o, g) = <<>>
           /\ SameAttributes(o.pre, o.post, g, GroupAttributes)
           /\ ~StoredOn(o.pre, g) => ~StoredOn(o.post, g)

C11_Witness ==
    \E o \in Observed : \E g \in Groups, h \in Groups :
        /\ o.cmd.group = 0
        /\ o.cmd.source = "trigger"
        /\ o.cmd.command = "on"
        /\ is_night(programs, o.at)
        /\ Stored(o.pre, g, "disabled-night") = "True"
        /\ ~StoredOn(o.pre, g) /\ ~StoredOn(o.post, g)
        /\ Stored(o.pre, h, "disabled-night") = None
        /\ ~StoredOn(o.pre, h) /\ StoredOn(o.post, h)

\* the brightness values the hysteresis lets through, as the store holds them
ClampedValues == {StrInt(n) : n \in {0} \cup (5..95) \cup {100}}

\* an observed set_brightness command for one group that the gates let through
SetBrightness(o) ==
    /\ o.cmd.group # 0
    /\ o.cmd.command = "set_brightness"
    /\ ~(o.cmd.source # "manual" /\ ~AutoMode(o.pre, o.cmd.group))
    /\ ~NightDropped(o, o.cmd.group)

\* C12: every stored white and rgb brightness is 0, 5..95 or 100; set_brightness maps
\* a request below 5 to 0 and above 95 to 100 before the driver call and the write,
\* and writes the slot of the group's stored color (white when none is stored).
C12_Clamped ==
    /\ \A g \in Groups : \A slot \in {"white_brightness", "rgb_brightness"} :
           Stored(redis, g, slot) \in ClampedValues \cup {None}
    /\ \A o \in Observed :
           SetBrightness(o) =>
               LET g == o.cmd.group
                   b == o.cmd.brightness[1]
                   v == StrInt(IF b < 5 THEN 0 ELSE IF b > 95 THEN 100 ELSE b)
                   slot == SlotOf(Stored(o.pre, g, "color"))
                   other == IF slot = "white_brightness" THEN "rgb_brightness"
                            ELSE "white_brightness"
               IN  /\ Stored(o.post, g, slot) = v
                   /\ Stored(o.post, g, other) = Stored(o.pre, g, other)
                   /\ \A i \in DOMAIN o.led : o.led[i] = [op |-> "set_brightness", group |-> g, arg |-> v]
                   /\ (o.led # <<>>) <=> (Stored(o.pre, g, slot) # v)

C12_Witness ==
    \E o \in Observed :
        /\ SetBrightness(o)
        /\ o.cmd.brightness[1] = 96
        /\ Stored(o.pre, o.cmd.group, "color") = "red"
        /\ Stored(o.pre, o.cmd.group, "white_brightness") = "95"
        /\ Stored(o.pre, o.cmd.group, "rgb_brightness") = None
        /\ Stored(o.post, o.cmd.group, "rgb_brightness") = "100"
        /\ Stored(o.post, o.cmd.group, "white_brightness") = "95"
        /\ Len(o.led) = 1

\* the observed command is processed for group g
ProcessedFor(o, g) == o.cmd.group \in {0, g}

\* the observed command takes manual control of the groups it is processed for
TakesControl(o) ==
    /\ o.cmd.source = "manual"
    /\ o.cmd.command \in {"set_color", "set_brightness", "on", "night", "auto-triggered"}

\* the observed command is an off command that is not dropped for group g
TurnsOff(o, g) ==
    /\ o.cmd.command = "off"
    /\ o.cmd.source = "manual" \/ AutoMode(o.pre, g)

\* C27: a group's autoMode becomes false only by a manual set_color, set_brightness,
\* on, night or auto-triggered command processed for the group, and such a command
\* leaves it false; it becomes true only by an off command processed for the group
\* and not dropped, and such a command leaves it true; every other command, and
\* every command for another group, leaves the group's stored auto value as it was.
C27_AutoModeFrame ==
    \A o \in Observed : \A g \in Groups :
        /\ (AutoMode(o.pre, g) /\ ~AutoMode(o.post, g))
              => (ProcessedFor(o, g) /\ TakesControl(o))
        /\ (~AutoMode(o.pre, g) /\ AutoMode(o.post, g))
              => (ProcessedFor(o, g) /\ TurnsOff(o, g))
        /\ (ProcessedFor(o, g) /\ TakesControl(o)) => Stored(o.post, g, "auto") = "False"
        /\ (ProcessedFor(o, g) /\ TurnsOff(o, g)) => Stored(o.post, g, "auto") = "True"
        /\ ~(ProcessedFor(o, g) /\ (TakesControl(o) \/ TurnsOff(o, g)))
              => Stored(o.post, g, "auto") = Stored(o.pre, g, "auto")

C27_Witness ==
    \E o \in Observed :
        /\ o.cmd.command = "auto-triggered"
        /\ o.cmd.source = "manual"
        /\ o.cmd.group = 0
        /\ Stored(o.pre, 1, "auto") = "True"
        /\ Stored(o.pre, 2, "auto") = None
        /\ \A g \in Groups : Stored(o.post, g, "auto") = "False"

\* the attributes of a group a command can set on the lights
LightAttributes == {"on", "color", "white_brightness", "rgb_brightness"}

\* the observed command comes from a trigger or from the scheduler and is
\* processed for group g, which is under manual control
Automatic(o, g) ==
    /\ ProcessedFor(o, g)
    /\ o.cmd.source \in {"trigger", "program"}
    /\ ~AutoMode(o.pre, g)

\* the observed command does nothing to group g
LeftAlone(o, g) ==
    /\ DriverCalls(o, g) = <<>>
    /\ SameAttributes(o.pre, o.post, g, LightAttributes)

\* program_sync holds back for group g
HeldBack(o, g) == ~StoredOn(o.pre, g) \/ Stored(o.pre, g, "user-override") = "True"

\* C28 as stated: while a group's autoMode is false no trigger or program command
\* in off, set_color, set_brightness, auto-triggered, program-sync changes the
\* group's stored on, color or brightness or causes a driver call.
C28_ManualWins ==
    \A o \in Observed : \A g \in Groups :
        (/\ Automatic(o, g)
         /\ o.cmd.command \in {"off", "set_color", "set_brightness", "auto-triggered",
                                "program-sync"})
            => LeftAlone(o, g)

\* C28, amended: while a group's autoMode is false no trigger or program command
\* in off, set_color, set_brightness, auto-triggered changes the group's stored on,
\* color or brightness or causes a driver call, and neither does a program-sync
\* when the group is stored off or has its user-override set; a program-sync for a
\* group that is on and has no user-override leaves the group holding the default
\* color and the default brightness, also under manual control.
C28_ManualWinsUnlessSynced ==
    \A o \in Observed : \A g \in Groups :
        /\ (/\ Automatic(o, g)
             /\ o.cmd.command \in {"off", "set_color", "set_brightness", "auto-triggered"})
                => LeftAlone(o, g)
        /\ (Automatic(o, g) /\ o.cmd.command = "program-sync" /\ HeldBack(o, g))
                => LeftAlone(o, g)
        /\ (Automatic(o, g) /\ o.cmd.command = "program-sync" /\ ~HeldBack(o, g))
                => /\ Stored(o.post, g, "color") = DefaultColor(o.pre)
                   /\ Stored(o.post, g, SlotOf(DefaultColor(o.pre))) = DefaultBrightness(o.pre)

C28_Witness ==
    \E o \in Observed :
        /\ o.cmd.command = "program-sync"
        /\ o.cmd.source = "program"
        /\ o.cmd.group = 0
        /\ \A g \in Groups : ~AutoMode(o.pre, g) /\ StoredOn(o.pre, g)
        /\ Stored(o.pre, 1, "user-override") = "True"
        /\ Stored(o.pre, 1, "color") \notin {None, DefaultColor(o.pre)}
        /\ LeftAlone(o, 1)
        /\ Stored(o.pre, 2, "color") \notin {None, DefaultColor(o.pre)}
        /\ Stored(o.post, 2, "color") = DefaultColor(o.pre)

\* a stored value stays, an absent one is filled with the given value
KeptOrFilled(o, g, attribute, fill) ==
    Stored(o.post, g, attribute) =
        IF Stored(o.pre, g, attribute) = None THEN fill ELSE Stored(o.pre, g, attribute)

\* the color sync applies to group g
SyncColor(o, g) == IF Stored(o.pre, g, "color") = None THEN "white" ELSE Stored(o.pre, g, "color")

\* C29: a sync command always calls the driver for each group it is processed
\* for: on, then set_color, then set_brightness, once each, with the stored color
\* (white when none is stored) and the stored brightness of that color's slot (100
\* when none is stored) when the group is stored on; off, once, when it is stored
\* off or has no stored on value.  The stored on, color and active brightness stay
\* as they were, an absent one being filled with the value applied, and the other
\* brightness slot and autoMode stay as they were.
C29_SyncReapplies ==
    \A o \in Observed : \A g \in Groups :
        (o.cmd.command = "sync" /\ ProcessedFor(o, g)) =>
            /\ Stored(o.post, g, "auto") = Stored(o.pre, g, "auto")
            /\ IF StoredOn(o.pre, g)
               THEN LET color == SyncColor(o, g)
                        slot == SlotOf(color)
                    IN  /\ DriverCalls(o, g) =
                               <<[op |-> "on", group |-> g, arg |-> "True"],
                                 [op |-> "set_color", group |-> g, arg |-> color],
                                 [op |-> "set_brightness", group |-> g,
                                  arg |-> Stored(o.post, g, slot)]>>
                        /\ Stored(o.post, g, "on") = "True"
                        /\ KeptOrFilled(o, g, "color", "white")
                        /\ KeptOrFilled(o, g, slot, "100")
                        /\ SameAttributes(o.pre, o.post, g,
                                          {"white_brightness", "rgb_brightness"} \ {slot})
               ELSE /\ DriverCalls(o, g) = <<[op |-> "off", group |-> g, arg |-> "False"]>>
                    /\ KeptOrFilled(o, g, "on", "False")
                    /\ SameAttributes(o.pre, o.post, g,
                                      {"color", "white_brightness", "rgb_brightness"})

C29_Witness ==
    \E o \in Observed :
        /\ o.cmd.command = "sync"
        /\ o.cmd.group = 0
        /\ StoredOn(o.pre, 1)
        /\ Stored(o.pre, 1, "color") \notin {None, "white"}
        /\ Stored(o.pre, 1, "rgb_brightness") \notin {None, "100"}
        /\ ~AutoMode(o.pre, 1)
        /\ Len(DriverCalls(o, 1)) = 3
        /\ Stored(o.pre, 2, "on") = None
        /\ Len(DriverCalls(o, 2)) = 1
        /\ \A g \in Groups : SameAttributes(o.pre, o.post, g, GroupAttributes \ {"on"})

----------------------------------------------------------------------------
(* Properties of the timer manager *)

\* the debounce check of the current start_timer call has been made
Checked == req.group # 0 /\ req.decision # "none"

\* the expiry the request asks for, seen from the debounce check
Requested == req.at + req.length \div 60

\* the current call left the group's timer alone
Untouched ==
    /\ req.decision = "skip"
    /\ req.cancelled = 0
    /\ req.armed = 0
    /\ Len(thr) = req.nthr0
    /\ timers[req.group] = req.timer
    /\ thr[req.timer].state # "cancelled"
    /\ timers_length[req.group] = req.expiry

\* C4 as stated: an unforced start_timer that finds a pending timer whose recorded
\* expiry E is later than or equal to the new expiry leaves the timer alone.
C4_EarlierOrEqualSkips ==
    (Checked /\ ~req.force /\ req.pending /\ Requested <= req.expiry) => Untouched

\* C4 amended: an unforced start_timer that finds a pending timer whose recorded
\* expiry E is later than the new expiry now+L does not cancel it, arms no timer and
\* leaves the recorded expiry E; when the new expiry equals E the request is not
\* debounced.
C4_EarlierSkips ==
    /\ (Checked /\ ~req.force /\ req.pending /\ Requested < req.expiry) => Untouched
    /\ (Checked /\ ~req.force /\ req.pending /\ Requested = req.expiry)
          => req.decision = "arm"

C4_Witness ==
    /\ Checked
    /\ ~req.force
    /\ req.pending
    /\ req.length = 60
    /\ Requested < req.expiry
    /\ pc.at = "listen"
    /\ timers_length[req.group] = req.expiry
    /\ thr[req.timer].state = "waiting"

\* C5: a start_timer that is forced, or whose new expiry is later than the recorded
\* expiry of the pending timer, cancels the group's old timer and arms exactly one new
\* timer of the requested length; the recorded expiry is then the clock plus the
\* length, also when that is earlier than the expiry it replaces.
C5_Replaces ==
    /\ (Checked /\ (req.force \/ (req.pending /\ Requested > req.expiry)))
          => req.decision = "arm"
    /\ (Checked /\ req.decision = "arm" /\ pc.at = "arm" /\ req.timer # 0)
          => /\ req.cancelled = req.timer
             /\ thr[req.timer].state # "waiting"
    /\ (Checked /\ req.armed # 0)
          => /\ Len(thr) = req.nthr0 + 1
             /\ req.armed = Len(thr)
             /\ timers[req.group] = req.armed
             /\ thr[req.armed].group = req.group
             /\ thr[req.armed].deadline = req.armed_at + req.length \div 60
             /\ timers_length[req.group] = req.armed_at + req.length \div 60
             /\ req.timer # 0 => thr[req.timer].state # "waiting"

C5_Witness ==
    /\ Checked
    /\ req.force
    /\ req.pending
    /\ req.length = 60
    /\ req.armed # 0
    /\ thr[req.timer].state = "cancelled"
    /\ timers_length[req.group] < req.expiry

\* C6: every start_timer call publishes exactly one auto-triggered command
\* {group, source trigger}, before the debounce check, whether the request is then
\* debounced or a timer armed.
C6_OneAutoTriggered ==
    req.group # 0 =>
        /\ pc.at = "publish" => AutoTriggers(req.group) = req.triggers0
        /\ pc.at = "check" => req.decision = "none"
        /\ pc.at # "publish" => AutoTriggers(req.group) = req.triggers0 + 1
        /\ \A i \in DOMAIN chan : chan[i].source = "trigger"

C6_Witness ==
    /\ req.group # 0
    /\ req.decision = "skip"
    /\ pc.at = "listen"
    /\ req.triggers0 = 1
    /\ AutoTriggers(req.group) = 2

MaxTimers == MaxReq * NumGroups

\* timer i is waiting and its deadline is within the clock's range
Due(i) ==
    IF i \in DOMAIN thr THEN thr[i].state = "waiting" /\ thr[i].deadline <= MaxTime
    ELSE FALSE

\* timer i was cancelled, or has published its one off command
Over(i) ==
    IF i \in DOMAIN thr
    THEN thr[i].cancelled \/ (thr[i].state = "fired" /\ thr[i].offs = 1)
    ELSE FALSE

Fired(g) == {i \in DOMAIN thr : thr[i].group = g /\ thr[i].state = "fired"}

\* C7: a timer publishes at most one off command, for its own group and not before
\* its length has elapsed; a cancelled timer publishes none; a timer that is due and
\* is not cancelled eventually publishes its off command.
C7_FiresOnce ==
    /\ [](\A i \in DOMAIN thr :
             /\ thr[i].offs <= 1
             /\ thr[i].cancelled => (thr[i].offs = 0 /\ thr[i].state = "cancelled")
             /\ thr[i].state = "waiting" => thr[i].offs = 0
             /\ thr[i].state = "fired" => (thr[i].offs = 1 /\ now >= thr[i].deadline))
    /\ [](\A g \in Groups : Offs(g) = Cardinality(Fired(g)))
    /\ \A i \in 1..MaxTimers : Due(i) ~> Over(i)

C7_Witness ==
    \E i \in DOMAIN thr, j \in DOMAIN thr :
        /\ thr[i].state = "fired"
        /\ thr[j].cancelled
        /\ thr[i].group = thr[j].group
        /\ Offs(thr[i].group) = 1

\* the pending timers of a group: armed, not cancelled, not yet fired
Pending(g) == {i \in DOMAIN thr : thr[i].group = g /\ thr[i].state = "waiting"}

\* the timers armed for a group so far
Armed(g) == {i \in DOMAIN thr : thr[i].group = g}

\* start_timer is between cancel() and Timer.start() for group g
Replacing(g) == pc.at = "arm" /\ Head(pc.todo).group = g

\* C23: in every state of the timer manager each group has at most one pending timer,
\* which is the timer last armed for the group, and the recorded expiry of the group is
\* the expiry of the timer last armed for it; a timer is cancelled only by a
\* start_timer call that then arms a new timer for the same group.
C23_OnePending ==
    /\ [](\A g \in Groups :
             /\ Cardinality(Pending(g)) <= 1
             /\ Armed(g) # {} <=> g \in DOMAIN timers
             /\ g \in DOMAIN timers <=> g \in DOMAIN timers_length
             /\ g \in DOMAIN timers =>
                    /\ timers[g] \in Armed(g)
                    /\ \A i \in Armed(g) : i <= timers[g]
                    /\ Pending(g) \subseteq {timers[g]}
                    /\ timers_length[g] = thr[timers[g]].deadline)
    /\ [](\A i \in DOMAIN thr :
             thr[i].cancelled =>
                 \/ \E j \in Armed(thr[i].group) : j > i
                 \/ Replacing(thr[i].group))
    /\ [][\A i \in DOMAIN thr :
             (~thr[i].cancelled /\ thr'[i].cancelled)
                 => /\ pc.at = "cancel"
                    /\ Head(pc.todo).group = thr[i].group
                    /\ Replacing(thr[i].group)']_vars

C23_Witness ==
    \E i \in DOMAIN thr, j \in DOMAIN thr, k \in DOMAIN thr :
        /\ thr[i].cancelled
        /\ thr[j].group = thr[i].group /\ thr[j].state = "waiting" /\ timers[thr[j].group] = j
        /\ thr[k].group # thr[i].group /\ thr[k].state = "waiting"
        /\ timers_length[thr[j].group] = thr[j].deadline
        /\ timers_length[thr[j].group] < thr[i].deadline

\* the place on the channel of the auto-triggered command the current start_timer
\* call published: the first one for its group after those published before the call
TriggerAt ==
    CHOOSE k \in DOMAIN chan :
        /\ chan[k] = [group |-> req.group, command |-> "auto-triggered", source |-> "trigger"]
        /\ Cardinality({i \in 1..k : chan[i] = chan[k]}) = req.triggers0 + 1

\* C24: once a start_timer call has published auto-triggered for its group and armed
\* a new timer in place of the group's old one, no off command for the group follows
\* that auto-triggered command on the channel while the new timer has not expired; the
\* replaced timer publishes no off after it.
C24_NoOffAfterRetrigger ==
    (/\ req.group # 0
     /\ req.armed # 0
     /\ thr[req.armed].state = "waiting"
     /\ now < thr[req.armed].deadline)
    => \A k \in DOMAIN chan :
           k > TriggerAt =>
               chan[k] # [group |-> req.group, command |-> "off", source |-> "trigger"]

\* the message handled is a forced one for group 0, as the morning one-shot publishes
ForcedFanOut == req.event.group = 0 /\ req.event.force

\* C25: once a timer-start message {group 0, force true} of length L has been handled,
\* its last start_timer call has armed a timer with recorded expiry now+L, and every
\* group has a timer whose recorded expiry is not later than the clock plus L, also a
\* group whose pending timer had a later expiry; that timer is pending until its
\* expiry.
C25_ForcedFanOut ==
    (pc.at = "listen" /\ ForcedFanOut) =>
        /\ req.decision = "arm"
        /\ req.armed # 0
        /\ timers_length[req.group] = req.armed_at + req.length \div 60
        /\ \A g \in Groups :
               /\ g \in DOMAIN timers
               /\ timers_length[g] <= now + req.length \div 60
               /\ thr[timers[g]].state = "waiting" \/ now >= thr[timers[g]].deadline

----------------------------------------------------------------------------
(* Properties of the timer manager and the command processor together *)

\* the observed message is the given command of the timer manager for group g
FromTimer(o, g, command) ==
    /\ o.cmd.group = g
    /\ o.cmd.command = command
    /\ o.cmd.source = "trigger"

\* no timer-start message will arrive any more, the last timer of group g expires
\* within the clock's range, and the group is in auto mode and not gated at night
Settled(g) ==
    /\ nreq = MaxReq
    /\ pc.at = "listen"
    /\ g \in DOMAIN timers
    /\ thr[timers[g]].deadline <= MaxTime
    /\ AutoMode(redis, g)
    /\ ~(is_night(programs, clock) /\ Stored(redis, g, "disabled-night") = "True")

\* the command processor has handled every message published, among them an
\* auto-triggered command that left group g on and, after it and as the last
\* message for the group, an off command that left it off and in auto mode
TurnedOff(g) ==
    /\ Len(hist) = Len(chan)
    /\ Stored(redis, g, "on") = "False"
    /\ AutoMode(redis, g)
    /\ \E j \in DOMAIN hist, k \in DOMAIN hist :
          /\ j < k
          /\ FromTimer(hist[j], g, "auto-triggered") /\ StoredOn(hist[j].post, g)
          /\ FromTimer(hist[k], g, "off") /\ ~StoredOn(hist[k].post, g)
          /\ \A i \in DOMAIN hist : i > k => hist[i].cmd.group # g

\* C26: the command processor handles the timer manager's messages in the order
\* they were published; an auto-triggered command for a group in auto mode that is
\* not gated at night leaves the group on, and an off command for a group in auto
\* mode leaves it off and in auto mode; when no further timer-start message arrives,
\* the off command of the group's timer is eventually handled and the group is off
\* and in auto mode.
C26_OnThenOff ==
    /\ [](\A k \in DOMAIN hist : hist[k].cmd = Decode(chan[k]))
    /\ [](\A o \in Observed : \A g \in Groups :
             /\ (/\ FromTimer(o, g, "auto-triggered")
                 /\ AutoMode(o.pre, g)
                 /\ ~NightDropped(o, g))
                => (StoredOn(o.post, g) /\ AutoMode(o.post, g))
             /\ (FromTimer(o, g, "off") /\ AutoMode(o.pre, g))
                => (Stored(o.post, g, "on") = "False" /\ AutoMode(o.post, g)))
    /\ \A g \in Groups : Settled(g) ~> TurnedOff(g)

C26_Witness ==
    /\ TurnedOff(1)
    /\ thr[timers[1]].state = "fired"
    /\ Stored(redis, NumGroups, "auto") = "False"
    /\ \E o \in Observed :
          /\ FromTimer(o, NumGroups, "auto-triggered")
          /\ ~StoredOn(o.post, NumGroups)

----------------------------------------------------------------------------
(* Properties of the two consumer loops on malformed payloads *)

Malformed == {malformed[i] : i \in DOMAIN malformed}

\* C22: a malformed payload received by the command processor or by the timer
\* manager changes no state, arms no timer and publishes nothing, and the loop that
\* received it is still consuming messages afterwards.
C22_MalformedDropped ==
    \A m \in Malformed :
        /\ m.post = m.pre
        /\ ~m.raised
        /\ m.loop = "control" => cpc = "listen"
        /\ m.loop = "timers" => pc.at # "raised"

----------------------------------------------------------------------------
(* Properties of the scheduler, stated over the recorded cycles *)

Cycles == {cycles[i] : i \in DOMAIN cycles}

\* the weekdays a program may start on
StartDays(p) ==
    CASE p = "morning-weekday" -> {0, 1, 2, 3, 4}
      [] p = "morning-weekend" -> {5, 6}
      [] p = "evening-weekday" -> {0, 1, 2, 3, 6}
      [] p = "evening-weekend" -> {4, 5}

DayOf(t) == t \div DayLen

\* the least number of days from weekday day to a weekday of the set
MinDays(day, days) ==
    CHOOSE n \in 0..6 : /\ (day + n) % 7 \in days
                         /\ \A m \in 0..(n - 1) : (day + m) % 7 \notin days

\* the occurrence of program definition def that starts on day number d
Occurrence(def, d) ==
    <<d * DayLen + def.start_at[1] * 3600 + def.start_at[2] * 60,
      d * DayLen + def.start_at[1] * 3600 + def.start_at[2] * 60 + def.duration>>

\* C13: the advanced window of each program starts on a weekday of the program's set
\* and ends at or after now; its day offset is the least number of days to such a
\* weekday counted from today, or one more than that counted from tomorrow when now
\* is past today's end, so that no occurrence starting on a day from today on that is
\* on a valid weekday and not yet over comes before it.
C13_NextOccurrence ==
    /\ calc_days_to(6, {0}) = 1
    /\ calc_days_to(5, {0, 1}) = 2
    /\ calc_days_to(0, {5, 6}) = 5
    /\ calc_days_to(2, {0, 1, 2, 3, 4}) = 0
    /\ \A c \in Cycles : \A p \in ProgramNames :
           LET window == c.next[p]
               def == c.programs[p]
               today == DayOf(c.now)
               offset == DayOf(window[1]) - today
               past == c.now > Occurrence(def, today)[2]
           IN  /\ window = Occurrence(def, today + offset)
               /\ (today + offset) % 7 \in StartDays(p)
               /\ window[2] >= c.now
               /\ offset = IF past THEN MinDays(today + 1, StartDays(p)) + 1
                           ELSE MinDays(today, StartDays(p))
               /\ \A j \in 0..(offset - 1) :
                      \/ (today + j) % 7 \notin StartDays(p)
                      \/ Occurrence(def, today + j)[2] < c.now
    /\ cycles # <<>> => timestamps = cycles[Len(cycles)].next

C13_Witness ==
    \E c \in Cycles :
        /\ c.programs = DefaultPrograms
        /\ DayOf(c.now) = 5
        /\ c.now > Occurrence(DefaultPrograms["morning-weekday"], 5)[2]
        /\ c.next["morning-weekday"] = Occurrence(DefaultPrograms["morning-weekday"], 7)
        /\ c.next["evening-weekend"] = Occurrence(DefaultPrograms["evening-weekend"], 5)
        /\ timestamps = c.next

\* the program of the given time of day and period, as the definitions hold it
Selected(defs, tod, period) ==
    [start_at |-> defs[tod \o "-" \o period].start_at,
     duration |-> defs[tod \o "-" \o period].duration,
     brightness |-> defs[tod \o "-" \o period].brightness,
     period |-> period, tod |-> tod]

\* C14: for every weekday get_day_programs gives one morning and one evening program;
\* the evening one is the weekend program on Friday and Saturday, the morning one on
\* Saturday and Sunday, the weekday program otherwise, and the weekday is one of the
\* start days of each program selected for it.
C14_DayPrograms ==
    /\ \A w \in 0..6 :
           LET selected == get_day_programs(programs, w)
               morning == IF w \in {5, 6} THEN "weekend" ELSE "weekday"
               evening == IF w \in {4, 5} THEN "weekend" ELSE "weekday"
           IN  /\ Len(selected) = 2
               /\ selected[1] = Selected(programs, "morning", morning)
               /\ selected[2] = Selected(programs, "evening", evening)
               /\ w \in StartDays("morning-" \o morning)
               /\ w \in StartDays("evening-" \o evening)
               /\ w \in ValidDays(selected[1].tod, selected[1].period)
               /\ w \in ValidDays(selected[2].tod, selected[2].period)
    /\ \A c \in Cycles :
           LET w == DayOf(c.now) % 7
           IN  /\ c.day[1].tod = "morning" /\ c.day[2].tod = "evening"
               /\ c.day[1].period = "weekend" <=> w \in {5, 6}
               /\ c.day[2].period = "weekend" <=> w \in {4, 5}
               /\ {c.day[1].period, c.day[2].period} \subseteq {"weekday", "weekend"}

C14_Witness ==
    \E c \in Cycles, d \in Cycles :
        /\ DayOf(c.now) % 7 = 6
        /\ c.day[1].period = "weekend" /\ c.day[2].period = "weekday"
        /\ DayOf(d.now) % 7 = 5
        /\ d.day[1].period = "weekend" /\ d.day[2].period = "weekend"

\* C15 as stated: percent_done is none exactly outside the advanced window, and
\* inside it, both ends included, it is (now - start) / duration with
\* 0 <= now - start < duration.
C15_BelowOne ==
    \A c \in Cycles : \A p \in ProgramNames :
        LET window == c.next[p]
            inside == window[1] <= c.now /\ c.now <= window[2]
        IN  /\ c.done[p] = <<>> <=> ~inside
            /\ inside =>
                  /\ c.done[p] = <<c.now - window[1], c.programs[p].duration>>
                  /\ 0 <= c.done[p][1]
                  /\ c.done[p][1] < c.done[p][2]

\* C15 amended: percent_done is none exactly outside the advanced window, and inside
\* it, both ends included, it is (now - start) / duration with
\* 0 <= now - start <= duration: it is 1 at the end of the window and below 1 before.
C15_PercentDone ==
    \A c \in Cycles : \A p \in ProgramNames :
        LET window == c.next[p]
            inside == window[1] <= c.now /\ c.now <= window[2]
        IN  /\ c.done[p] = <<>> <=> ~inside
            /\ inside =>
                  /\ c.done[p] = <<c.now - window[1], c.programs[p].duration>>
                  /\ 0 <= c.done[p][1]
                  /\ c.done[p][1] <= c.done[p][2]
                  /\ c.done[p][1] = c.done[p][2] <=> c.now = window[2]
                  /\ c.done[p][1] = 0 <=> c.now = window[1]

C15_Witness ==
    \E c \in Cycles, d \in Cycles, e \in Cycles :
        /\ c.programs = ShortPrograms /\ d.programs = ShortPrograms /\ e.programs = ShortPrograms
        /\ c.done["morning-weekday"] = <<0, 60>>
        /\ d.done["morning-weekday"] = <<40, 60>>
        /\ e.done["morning-weekday"] = <<60, 60>>
        /\ e.now = e.next["morning-weekday"][2]
        /\ e.done["evening-weekday"] = <<>>

\* hour and minute of an instant
HourMinute(t) == <<(t % DayLen) \div 3600, ((t % DayLen) % 3600) \div 60>>

\* a cycle on the default programs at the given hour and minute of Monday to Friday
WeekdayAt(c, h, m) ==
    /\ c.programs = DefaultPrograms
    /\ DayOf(c.now) % 7 \in 0..4
    /\ HourMinute(c.now) = <<h, m>>

\* is_day is the test morning start <= now <= evening end on today's occurrences of
\* the programs selected for the weekday, and is_night is its negation
DaySpan(c) ==
    LET w == DayOf(c.now) % 7
        morning == c.programs["morning-" \o (IF w \in {5, 6} THEN "weekend" ELSE "weekday")]
        evening == c.programs["evening-" \o (IF w \in {4, 5} THEN "weekend" ELSE "weekday")]
    IN  /\ c.is_day <=> /\ Occurrence(morning, DayOf(c.now))[1] <= c.now
                         /\ c.now <= Occurrence(evening, DayOf(c.now))[2]
        /\ c.is_night <=> ~c.is_day

\* C16 as stated: is_day is the inclusive test on the un-advanced morning start and
\* evening end, is_night its negation, and with the default programs a weekday's
\* 08:34 and 16:34 are day and its 07:34, 23:00 and 01:00 are night.
C16_Examples ==
    \A c \in Cycles :
        /\ DaySpan(c)
        /\ (WeekdayAt(c, 8, 34) \/ WeekdayAt(c, 16, 34)) => c.is_day
        /\ (WeekdayAt(c, 7, 34) \/ WeekdayAt(c, 23, 0) \/ WeekdayAt(c, 1, 0)) => c.is_night

\* C16 amended: is_day is the inclusive test on the un-advanced morning start and
\* evening end and is_night its negation; with the default programs 08:34 and 16:34
\* of Monday to Friday are day, 07:34 and 01:00 are night, and on Monday to Thursday
\* 23:00:00, the end of the evening window, is still day and every later instant of
\* the evening is night.
C16_DayNight ==
    \A c \in Cycles :
        /\ DaySpan(c)
        /\ (WeekdayAt(c, 8, 34) \/ WeekdayAt(c, 16, 34)) => c.is_day
        /\ (WeekdayAt(c, 7, 34) \/ WeekdayAt(c, 1, 0)) => c.is_night
        /\ (WeekdayAt(c, 23, 0) /\ DayOf(c.now) % 7 \in 0..3) =>
               (c.is_day <=> c.now % DayLen = 23 * 3600)

C16_Witness ==
    \E c \in Cycles, d \in Cycles :
        /\ WeekdayAt(c, 23, 0) /\ WeekdayAt(d, 23, 0)
        /\ DayOf(c.now) = 2 /\ DayOf(d.now) = 2
        /\ c.now % DayLen = 23 * 3600 /\ c.is_day
        /\ d.now % DayLen = 23 * 3600 + 20 /\ d.is_night

\* now lies strictly inside the advanced window recorded for the program
Inside(c, program) ==
    LET window == c.next[program.tod \o "-" \o program.period]
    IN  window[1] < c.now /\ c.now < window[2]

\* now is the start or the end of the advanced window recorded for the program
AtEndpoint(c, program) ==
    c.now \in {c.next[program.tod \o "-" \o program.period][1],
               c.next[program.tod \o "-" \o program.period][2]}

\* C17: get_running_program gives the morning program of the day when now is strictly
\* inside its advanced window, otherwise the evening program of the day under the
\* same test, otherwise none; the program it gives is never at an endpoint of its
\* window, and is the morning one when both windows contain now.
C17_RunningProgram ==
    \A c \in Cycles :
        /\ c.program = IF Inside(c, c.day[1]) THEN <<c.day[1]>>
                       ELSE IF Inside(c, c.day[2]) THEN <<c.day[2]>>
                       ELSE <<>>
        /\ c.program # <<>> => ~AtEndpoint(c, c.program[1])
        /\ (Inside(c, c.day[1]) /\ Inside(c, c.day[2])) => c.program[1].tod = "morning"
        /\ c.day[1].tod = "morning" /\ c.day[2].tod = "evening"

C17_Witness ==
    \E b \in Cycles, c \in Cycles, d \in Cycles :
        /\ AtEndpoint(b, b.day[1]) /\ AtEndpoint(b, b.day[2]) /\ b.program = <<>>
        /\ Inside(c, c.day[1]) /\ Inside(c, c.day[2]) /\ c.program = <<c.day[1]>>
        /\ AtEndpoint(d, d.day[1]) /\ Inside(d, d.day[2]) /\ d.program = <<d.day[2]>>

\* the cycle ran execute_program on a program whose running flag is set
Executed(c, tod) ==
    /\ c.program # <<>>
    /\ c.program[1].tod = tod
    /\ Get(c.pre, Key(0, "running-" \o tod \o "-" \o c.program[1].period)) \in {"true", "True"}

\* the one-shot key of the cycle's program as the cycle found it: present, not
\* expired, and holding the program's duration and start_at
KeyMatches(c) ==
    LET key == c.program[1].period \o "-" \o c.program[1].tod
    IN  /\ key \in DOMAIN c.tpre
        /\ c.tpre[key].expires > c.now
        /\ c.tpre[key].duration = c.program[1].duration
        /\ c.tpre[key].start_at = c.program[1].start_at

\* two cycles in the same window of the same morning program
SameWindow(c, d) ==
    /\ c.program[1].period = d.program[1].period
    /\ c.program[1].duration = d.program[1].duration
    /\ c.program[1].start_at = d.program[1].start_at
    /\ DayOf(c.now) = DayOf(d.now)

\* C18: a cycle publishes a timer-start event only when it executes an enabled
\* morning program whose one-shot key is absent, expired or holds other parameters;
\* the event is {group 0, duration of the program, force true} and the key is then
\* written with the program's parameters and a time to live of duration + 10 s;
\* among the cycles of one window of a program with unchanged duration and start_at
\* exactly one publishes it.
C18_OneShot ==
    /\ \A c \in Cycles :
           /\ c.timer_pub # <<>> => Executed(c, "morning")
           /\ Executed(c, "morning") =>
                 LET key == c.program[1].period \o "-" \o c.program[1].tod
                 IN  IF KeyMatches(c)
                     THEN c.timer_pub = <<>> /\ c.tpost = c.tpre
                     ELSE /\ c.timer_pub = <<[group |-> 0,
                                              duration |-> <<c.program[1].duration>>,
                                              force |-> TRUE]>>
                          /\ c.tpost[key] = [start_at |-> c.program[1].start_at,
                                             duration |-> c.program[1].duration,
                                             brightness |-> c.program[1].brightness,
                                             expires |-> c.now + c.program[1].duration + 10]
                          /\ \A k \in DOMAIN c.tpost \ {key} :
                                 k \in DOMAIN c.tpre /\ c.tpost[k] = c.tpre[k]
    /\ \A j \in DOMAIN cycles :
           Executed(cycles[j], "morning") =>
               Cardinality({i \in 1..j : /\ Executed(cycles[i], "morning")
                                          /\ SameWindow(cycles[i], cycles[j])
                                          /\ cycles[i].timer_pub # <<>>}) = 1

C18_Witness ==
    \E i \in DOMAIN cycles, j \in DOMAIN cycles, k \in DOMAIN cycles :
        /\ i < j /\ j < k
        /\ Executed(cycles[i], "morning") /\ Executed(cycles[j], "morning")
        /\ Executed(cycles[k], "morning")
        /\ SameWindow(cycles[i], cycles[j])
        /\ Len(cycles[i].timer_pub) = 1
        /\ cycles[j].timer_pub = <<>>
        /\ cycles[k].program[1].duration # cycles[j].program[1].duration
        /\ Len(cycles[k].timer_pub) = 1

\* the cycle called execute_program on a program whose running flag is not set
Disabled(c) ==
    /\ c.program # <<>>
    /\ Get(c.pre, Key(0, "running-" \o c.program[1].tod \o "-" \o c.program[1].period))
           \notin {"true", "True"}

\* C19: execute_program on a program whose running flag is absent or not true changes
\* nothing in the store, among it the default color, the default brightness and the
\* one-shot keys, and publishes neither a timer-start event nor a command.
C19_DisabledNoOp ==
    \A c \in Cycles :
        Disabled(c) =>
            /\ c.post = c.pre
            /\ Stored(c.post, 0, "default-color") = Stored(c.pre, 0, "default-color")
            /\ Stored(c.post, 0, "default-brightness") = Stored(c.pre, 0, "default-brightness")
            /\ c.tpost = c.tpre
            /\ c.timer_pub = <<>>
            /\ c.control_pub = <<>>

C19_Witness ==
    \E c \in Cycles, d \in Cycles :
        /\ Disabled(c) /\ Disabled(d)
        /\ c.program[1].tod = "evening" /\ d.program[1].tod = "morning"
        /\ Stored(c.pre, 0, "running-evening-weekday") = None
        /\ Stored(c.pre, 0, "default-brightness") = "100"
        /\ Stored(c.post, 0, "default-brightness") = "100"
        /\ c.control_pub = <<>>
        /\ d.timer_pub = <<>>

\* the default brightness a cycle left in the store
Brightness(c) == IntStr(Stored(c.post, 0, "default-brightness"))

\* C20: a cycle executing an enabled evening program that is running has a
\* percent_done, leaves as default brightness the integer part of
\* (1 - percent_done) * 100 (the double computation gives one less than a whole
\* percentage at some instants), which is in 0..100 and not above that of an earlier
\* cycle of the same window, and publishes exactly one program-sync command
\* {group 0, source program}; no other cycle publishes a command.
C20_EveningRamp ==
    /\ \A c \in Cycles :
           /\ c.control_pub # <<>> => Executed(c, "evening")
           /\ Executed(c, "evening") =>
                 LET done == c.done["evening-" \o c.program[1].period]
                 IN  /\ done # <<>>
                     /\ Brightness(c) \in 0..100
                     /\ Brightness(c) * done[2] <= (done[2] - done[1]) * 100
                     /\ (done[2] - done[1]) * 100 <= (Brightness(c) + 1) * done[2]
                     /\ c.control_pub = <<[command |-> "program-sync", group |-> 0,
                                           source |-> "program"]>>
                     /\ c.timer_pub = <<>>
    /\ \A i \in DOMAIN cycles, j \in DOMAIN cycles :
           (/\ i < j
            /\ Executed(cycles[i], "evening") /\ Executed(cycles[j], "evening")
            /\ SameWindow(cycles[i], cycles[j]))
           => Brightness(cycles[j]) <= Brightness(cycles[i])

C20_Witness ==
    \E i \in DOMAIN cycles, j \in DOMAIN cycles, k \in DOMAIN cycles :
        /\ i < j /\ j < k
        /\ Executed(cycles[i], "evening") /\ Executed(cycles[j], "evening")
        /\ Executed(cycles[k], "evening")
        /\ cycles[i].done["evening-weekday"] = <<76, 120>> /\ Brightness(cycles[i]) = 36
        /\ cycles[j].done["evening-weekday"] = <<96, 120>> /\ Brightness(cycles[j]) = 19
        /\ cycles[k].done["evening-weekday"] = <<116, 120>> /\ Brightness(cycles[k]) = 3
        /\ Len(cycles[k].control_pub) = 1

\* the cycle found no running program
Idle(c) == c.program = <<>>

====
